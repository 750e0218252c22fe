---------------------------- MODULE DgFrameProofs ----------------------------
(***************************************************************************)
(* For any objects, primitives and works, any sizes and any views: the     *)
(* heaps stay whole, the pointers of the objects stay right, and the GPU   *)
(* reads nothing that has gone to somebody else or has moved.  First the   *)
(* operations of memory.c, each by what it does to the blocks of a heap;   *)
(* then the steps, each by what it does to the blocks, the pointers and    *)
(* what the GPU reads; then the theorems.                                  *)
(***************************************************************************)
EXTENDS DgFrameInv, SequenceTheorems, FiniteSetTheorems, NaturalsInduction, WellFoundedInduction, TLAPS

-----------------------------------------------------------------------------
(* Sequences, and recursion over the numbers up to N. *)

\* Removing one position shifts those behind it.
LEMMA RemoveAtElements ==
  ASSUME NEW S, NEW q \in Seq(S), NEW i \in DOMAIN q
  PROVE  /\ RemoveAt(q, i) \in Seq(S)
         /\ Len(RemoveAt(q, i)) = Len(q) - 1
         /\ \A j \in 1 .. Len(q) - 1 : RemoveAt(q, i)[j] = IF j < i THEN q[j] ELSE q[j + 1]
<1>1. i \in 1 .. Len(q) /\ Len(q) \in Nat /\ \A j \in 1 .. Len(q) : q[j] \in S
  BY LenProperties, ElementOfSeq
<1> DEFINE a == SubSeq(q, 1, i - 1)
           b == SubSeq(q, i + 1, Len(q))
<1>2. /\ a \in Seq(S) /\ Len(a) = i - 1
      /\ \A j \in 1 .. i - 1 : a[j] = q[j]
  BY <1>1, SubSeqProperties
<1>3. /\ b \in Seq(S) /\ Len(b) = Len(q) - i
      /\ \A j \in 1 .. Len(q) - i : b[j] = q[i + j]
  <2>1. /\ i + 1 \in Int /\ \A j \in i + 1 .. Len(q) : q[j] \in S
    BY <1>1
  <2>2. /\ b \in Seq(S) /\ Len(b) = IF i + 1 <= Len(q) THEN Len(q) - (i + 1) + 1 ELSE 0
        /\ \A j \in 1 .. Len(q) - (i + 1) + 1 : b[j] = q[(i + 1) + j - 1]
    BY <1>1, <2>1, SubSeqProperties
  <2> QED BY <1>1, <2>2
<1> HIDE DEF a, b
<1>4. /\ a \o b \in Seq(S) /\ Len(a \o b) = Len(q) - 1
      /\ \A j \in 1 .. Len(q) - 1 : (a \o b)[j] = IF j <= i - 1 THEN a[j] ELSE b[j - (i - 1)]
  <2>1. /\ a \o b \in Seq(S) /\ Len(a \o b) = Len(a) + Len(b)
        /\ \A j \in 1 .. Len(a) + Len(b) : (a \o b)[j] = IF j <= Len(a) THEN a[j] ELSE b[j - Len(a)]
    BY <1>2, <1>3, ConcatProperties
  <2>2. Len(a) + Len(b) = Len(q) - 1
    BY <1>1, <1>2, <1>3
  <2> QED BY <1>2, <2>1, <2>2
<1>5. RemoveAt(q, i) = a \o b
  BY DEF RemoveAt, a, b
<1>6. ASSUME NEW j \in 1 .. Len(q) - 1
      PROVE  (a \o b)[j] = IF j < i THEN q[j] ELSE q[j + 1]
  <2>1. CASE j < i
    <3>1. j \in 1 .. i - 1 /\ j <= i - 1
      BY <1>1, <2>1
    <3> QED BY <1>2, <1>4, <2>1, <3>1
  <2>2. CASE ~(j < i)
    <3>1. j - (i - 1) \in 1 .. Len(q) - i /\ ~(j <= i - 1) /\ i + (j - (i - 1)) = j + 1
      BY <1>1, <2>2
    <3>2. b[j - (i - 1)] = q[i + (j - (i - 1))]
      BY <1>3, <3>1
    <3> QED BY <1>4, <2>2, <3>1, <3>2
  <2> QED BY <2>1, <2>2
<1> QED BY <1>4, <1>5, <1>6

\* A queue is used through the set of its elements: removal takes one out, ...
LEMMA RemoveAtQueue ==
  ASSUME NEW S, NEW q \in Seq(S), NEW i \in DOMAIN q, IsInjective(q)
  PROVE  /\ RemoveAt(q, i) \in Seq(S) /\ IsInjective(RemoveAt(q, i))
         /\ \A x : Contains(RemoveAt(q, i), x) <=> Contains(q, x) /\ x # q[i]
<1> DEFINE r == RemoveAt(q, i)
<1>1. Len(q) \in Nat /\ DOMAIN q = 1 .. Len(q) /\ i \in 1 .. Len(q)
  BY LenProperties
<1>2. /\ r \in Seq(S) /\ Len(r) = Len(q) - 1 /\ DOMAIN r = 1 .. Len(r)
      /\ \A j \in 1 .. Len(q) - 1 : r[j] = IF j < i THEN q[j] ELSE q[j + 1]
  BY RemoveAtElements, LenProperties
<1> HIDE DEF r
<1>3. IsInjective(r)
  <2> DEFINE p(j) == IF j < i THEN j ELSE j + 1
  <2>1. \A j \in 1 .. Len(r) : p(j) \in 1 .. Len(q) /\ r[j] = q[p(j)]
    BY <1>1, <1>2
  <2>2. \A j, k \in 1 .. Len(r) : p(j) = p(k) => j = k
    BY <1>1
  <2> HIDE DEF p
  <2>3. \A j, k \in 1 .. Len(r) : r[j] = r[k] => p(j) = p(k)
    BY <1>1, <2>1 DEF IsInjective
  <2> QED BY <1>2, <2>2, <2>3 DEF IsInjective
<1>4. ASSUME NEW x, Contains(r, x) PROVE Contains(q, x) /\ x # q[i]
  BY <1>1, <1>2, <1>4 DEF IsInjective, Contains
<1>5. ASSUME NEW x, Contains(q, x), x # q[i] PROVE Contains(r, x)
  <2>1. PICK j \in 1 .. Len(q) : q[j] = x
    BY <1>5 DEF Contains
  <2>2. CASE j < i
    BY <1>1, <1>2, <2>1, <2>2 DEF Contains
  <2>3. CASE j > i
    <3>1. j - 1 \in 1 .. Len(r) /\ r[j - 1] = q[j]
      BY <1>1, <1>2, <2>1, <2>3
    <3> QED BY <3>1, <2>1 DEF Contains
  <2> QED BY <1>1, <1>5, <2>1, <2>2, <2>3
<1> QED BY <1>2, <1>3, <1>4, <1>5 DEF r

\* ... appending adds one, ...
LEMMA AppendQueue ==
  ASSUME NEW S, NEW q \in Seq(S), NEW e \in S, IsInjective(q), ~Contains(q, e)
  PROVE  /\ Append(q, e) \in Seq(S) /\ IsInjective(Append(q, e))
         /\ \A x : Contains(Append(q, e), x) <=> Contains(q, x) \/ x = e
<1> DEFINE r == Append(q, e)
<1>1. Len(q) \in Nat /\ DOMAIN q = 1 .. Len(q)
  BY LenProperties
<1>2. /\ r \in Seq(S) /\ Len(r) = Len(q) + 1 /\ DOMAIN r = 1 .. Len(r)
      /\ \A j \in 1 .. Len(q) : r[j] = q[j]
      /\ r[Len(q) + 1] = e
  BY AppendProperties, LenProperties
<1> HIDE DEF r
<1>3. IsInjective(r)
  BY <1>1, <1>2 DEF IsInjective, Contains
<1>4. \A x : Contains(r, x) <=> Contains(q, x) \/ x = e
  BY <1>1, <1>2 DEF Contains
<1> QED BY <1>2, <1>3, <1>4 DEF r

\* Inserting at a position shifts those from it on.
LEMMA InsertAtElements ==
  ASSUME NEW S, NEW q \in Seq(S), NEW i \in 1 .. Len(q) + 1, NEW e \in S
  PROVE  /\ InsertAt(q, i, e) \in Seq(S)
         /\ Len(InsertAt(q, i, e)) = Len(q) + 1
         /\ \A j \in 1 .. Len(q) + 1 :
              InsertAt(q, i, e)[j] = IF j < i THEN q[j] ELSE IF j = i THEN e ELSE q[j - 1]
<1>1. Len(q) \in Nat /\ \A j \in 1 .. Len(q) : q[j] \in S
  BY LenProperties, ElementOfSeq
<1> DEFINE a == SubSeq(q, 1, i - 1)
           b == SubSeq(q, i, Len(q))
<1>2. a \in Seq(S) /\ Len(a) = i - 1 /\ \A j \in 1 .. i - 1 : a[j] = q[j]
  <2>1. i - 1 \in Int /\ \A j \in 1 .. i - 1 : q[j] \in S
    BY <1>1
  <2>2. /\ a \in Seq(S) /\ Len(a) = IF 1 <= i - 1 THEN i - 1 - 1 + 1 ELSE 0
        /\ \A j \in 1 .. i - 1 - 1 + 1 : a[j] = q[1 + j - 1]
    BY <2>1, SubSeqProperties
  <2> QED BY <1>1, <2>2
<1>3. b \in Seq(S) /\ Len(b) = Len(q) - i + 1 /\ \A j \in 1 .. Len(q) - i + 1 : b[j] = q[i + j - 1]
  <2>1. i \in Int /\ Len(q) \in Int /\ \A j \in i .. Len(q) : q[j] \in S
    BY <1>1
  <2>2. /\ b \in Seq(S) /\ Len(b) = IF i <= Len(q) THEN Len(q) - i + 1 ELSE 0
        /\ \A j \in 1 .. Len(q) - i + 1 : b[j] = q[i + j - 1]
    BY <2>1, SubSeqProperties
  <2> QED BY <1>1, <2>2
<1> HIDE DEF a, b
<1>4. <<e>> \in Seq(S) /\ Len(<<e>>) = 1 /\ <<e>>[1] = e
  OBVIOUS
<1>5. /\ a \o <<e>> \in Seq(S) /\ Len(a \o <<e>>) = i
      /\ \A j \in 1 .. i : (a \o <<e>>)[j] = IF j < i THEN q[j] ELSE e
  <2>1. /\ a \o <<e>> \in Seq(S) /\ Len(a \o <<e>>) = Len(a) + Len(<<e>>)
        /\ \A j \in 1 .. Len(a) + Len(<<e>>) :
             (a \o <<e>>)[j] = IF j <= Len(a) THEN a[j] ELSE <<e>>[j - Len(a)]
    BY <1>2, <1>4, ConcatProperties
  <2>2. Len(a) + Len(<<e>>) = i
    BY <1>1, <1>2, <1>4
  <2>3. ASSUME NEW j \in 1 .. i PROVE (a \o <<e>>)[j] = IF j < i THEN q[j] ELSE e
    <3>1. CASE j < i
      BY <1>1, <1>2, <2>1, <2>2, <3>1
    <3>2. CASE ~(j < i)
      <4>1. j = i /\ ~(j <= Len(a)) /\ j - Len(a) = 1
        BY <1>1, <1>2, <3>2
      <4> QED BY <2>1, <2>2, <4>1, <1>4
    <3> QED BY <3>1, <3>2
  <2> QED BY <2>1, <2>2, <2>3
<1> DEFINE c == a \o <<e>>
<1> HIDE DEF c
<1>6. c \in Seq(S) /\ Len(c) = i /\ \A j \in 1 .. i : c[j] = IF j < i THEN q[j] ELSE e
  BY <1>5 DEF c
<1>7. /\ c \o b \in Seq(S) /\ Len(c \o b) = Len(c) + Len(b)
      /\ \A j \in 1 .. Len(c) + Len(b) : (c \o b)[j] = IF j <= Len(c) THEN c[j] ELSE b[j - Len(c)]
  BY <1>3, <1>6, ConcatProperties
<1>8. Len(c) + Len(b) = Len(q) + 1
  BY <1>1, <1>3, <1>6
<1>9. ASSUME NEW j \in 1 .. Len(q) + 1
      PROVE  (c \o b)[j] = IF j < i THEN q[j] ELSE IF j = i THEN e ELSE q[j - 1]
  <2>1. CASE j <= i
    <3>1. j \in 1 .. i /\ (c \o b)[j] = c[j]
      BY <1>1, <1>6, <1>7, <1>8, <2>1
    <3> QED BY <1>1, <1>6, <2>1, <3>1
  <2>2. CASE j > i
    <3>1. j - i \in 1 .. Len(q) - i + 1 /\ i + (j - i) - 1 = j - 1 /\ ~(j <= Len(c))
      BY <1>1, <1>6, <2>2
    <3>2. (c \o b)[j] = b[j - i]
      BY <1>6, <1>7, <1>8, <3>1
    <3>3. b[j - i] = q[j - 1]
      BY <1>3, <3>1
    <3> QED BY <1>1, <2>2, <3>2, <3>3
  <2>3. j <= i \/ j > i
    BY <1>1
  <2> QED BY <2>1, <2>2, <2>3
<1> QED BY <1>7, <1>8, <1>9 DEF InsertAt, c, a, b

\* A function on 1..L is a sequence of that length.
LEMMA SeqOfLength ==
  ASSUME NEW S, NEW L \in Nat, NEW v \in [1..L -> S]
  PROVE  v \in Seq(S) /\ Len(v) = L
<1>1. v \in Seq(S)
  BY SeqDef
<1>2. 1..Len(v) = 1..L /\ Len(v) \in Nat
  BY <1>1, LenProperties
<1> DEFINE a == Len(v)
<1> HIDE DEF a
<1>3. 1..a = 1..L /\ a \in Nat
  BY <1>2 DEF a
<1>4. ~(a < L)
  <2>1. a < L => L \in 1..L /\ L \notin 1..a
    BY <1>3
  <2> QED BY <1>3, <2>1
<1>5. ~(L < a)
  <2>1. L < a => a \in 1..a /\ a \notin 1..L
    BY <1>3
  <2> QED BY <1>3, <2>1
<1>6. a = L
  BY <1>3, <1>4, <1>5
<1> QED BY <1>1, <1>6 DEF a

\* A set of numbers that is not empty has a least one.
LEMMA Least == ASSUME NEW T, T \subseteq Nat, T # {} PROVE \E m \in T : \A k \in T : m <= k
<1> DEFINE R == OpToRel(<, Nat)
<1>1. IsWellFoundedOn(R, Nat)
  BY NatLessThanWellFounded
<1>2. \A x, y \in Nat : <<x, y>> \in R <=> x < y
  BY DEF OpToRel
<1> HIDE DEF R
<1>3. PICK x \in T : \A y \in T : ~ (<<y, x>> \in R)
  BY <1>1, WFMin
<1>4. ASSUME NEW y \in T PROVE x <= y
  <2>1. x \in Nat /\ y \in Nat /\ ~(y < x)
    BY <1>2, <1>3
  <2> QED BY <2>1
<1> QED BY <1>4

\* Induction up to a number, over the set of those for which something holds.
LEMMA UpTo ==
  ASSUME NEW N \in Nat, NEW I, 0 \in I, \A n \in 1..N : n - 1 \in I => n \in I
  PROVE  \A n \in 0..N : n \in I
<1> DEFINE Bad == {n \in 0..N : n \notin I}
<1>1. SUFFICES ASSUME Bad # {} PROVE FALSE
  OBVIOUS
<1>2. PICK n \in Bad : \A m \in Bad : n <= m
  <2> HIDE DEF Bad
  <2>1. Bad \subseteq Nat
    BY DEF Bad
  <2> QED BY <1>1, <2>1, Least
<1>3. n \in 1..N /\ n - 1 \in 0..N /\ ~(n <= n - 1)
  <2>1. n # 0
    OBVIOUS
  <2> QED BY <2>1
<1>4. n - 1 \in I
  BY <1>2, <1>3
<1> QED BY <1>3, <1>4

\* The same from all the numbers before.
LEMMA UpToAll ==
  ASSUME NEW N \in Nat, NEW I, \A n \in 0..N : (\A m \in 0..n - 1 : m \in I) => n \in I
  PROVE  \A n \in 0..N : n \in I
<1> DEFINE Bad == {n \in 0..N : n \notin I}
<1>1. SUFFICES ASSUME Bad # {} PROVE FALSE
  OBVIOUS
<1>2. PICK n \in Bad : \A m \in Bad : n <= m
  <2> HIDE DEF Bad
  <2>1. Bad \subseteq Nat
    BY DEF Bad
  <2> QED BY <1>1, <2>1, Least
<1>3. \A m \in 0..n - 1 : m \in 0..N /\ ~(n <= m)
  OBVIOUS
<1>4. \A m \in 0..n - 1 : m \in I
  BY <1>2, <1>3
<1> QED BY <1>4

\* A function that goes on from its last value exists.
LEMMA Recursion ==
  ASSUME NEW S, NEW a \in S, NEW N \in Nat, NEW G \in [1..N -> [S -> S]]
  PROVE  \E s \in [0..N -> S] : s[0] = a /\ \A n \in 1..N : s[n] = G[n][s[n - 1]]
<1> DEFINE Upto(n) == \E s \in [0..n -> S] : s[0] = a /\ \A k \in 1..n : s[k] = G[k][s[k - 1]]
           I == {n \in 0..N : Upto(n)}
<1>1. 0 \in I
  <2> DEFINE s == [k \in 0..0 |-> a]
  <2>1. s \in [0..0 -> S] /\ s[0] = a /\ \A k \in 1..0 : s[k] = G[k][s[k - 1]]
    OBVIOUS
  <2> HIDE DEF s
  <2>2. Upto(0)
    BY <2>1
  <2> QED BY <2>2
<1>2. ASSUME NEW n \in 1..N, n - 1 \in I PROVE n \in I
  <2>1. PICK s \in [0..n - 1 -> S] : s[0] = a /\ \A k \in 1..n - 1 : s[k] = G[k][s[k - 1]]
    BY <1>2
  <2> DEFINE t == [k \in 0..n |-> IF k = n THEN G[n][s[n - 1]] ELSE s[k]]
  <2>2. n - 1 \in 0..n - 1 /\ s[n - 1] \in S /\ G[n] \in [S -> S]
    OBVIOUS
  <2>3. t \in [0..n -> S]
    BY <2>2
  <2>4. t[0] = a
    BY <2>1
  <2>5. ASSUME NEW k \in 1..n PROVE t[k] = G[k][t[k - 1]]
    <3>1. k - 1 \in 0..n /\ k - 1 # n /\ t[k - 1] = s[k - 1]
      OBVIOUS
    <3> QED BY <2>1, <3>1
  <2> HIDE DEF t
  <2>6. Upto(n)
    BY <2>3, <2>4, <2>5
  <2> QED BY <2>6
<1>3. \A n \in 0..N : n \in I
  <2> HIDE DEF I
  <2> QED BY <1>1, <1>2, UpTo
<1> QED BY <1>3

-----------------------------------------------------------------------------
(* Tables: the entries that are kept. *)

\* Lowest gives the least of some numbers.
LEMMA LowestFacts ==
  ASSUME NEW T, T \subseteq Nat, T # {}
  PROVE  Lowest(T) \in T /\ \A k \in T : Lowest(T) <= k
<1>1. PICK m \in T : \A k \in T : m <= k
  BY Least
<1>2. Lowest(T) = Min(T)
  BY DEF Lowest
<1>3. Min(T) \in T /\ \A k \in T : Min(T) <= k
  BY <1>1, Zenon DEF Min
<1> QED BY <1>2, <1>3

\* w is the first n entries of u without those that are not kept.
Kept(T, u, keep, n, w) ==
  /\ w \in Seq(T) /\ Len(w) <= n
  /\ \E f \in [1..Len(w) -> 1..n] :
       /\ \A i \in 1..Len(w) : f[i] \in keep /\ w[i] = u[f[i]]
       /\ \A i, j \in 1..Len(w) : i < j => f[i] < f[j]
       /\ \A k \in 1..n : k \in keep => \E i \in 1..Len(w) : f[i] = k

\* Nothing is kept of nothing; ...
LEMMA KeptNone == ASSUME NEW T, NEW u, NEW keep PROVE Kept(T, u, keep, 0, << >>)
<1> DEFINE f == [i \in 1..0 |-> 1]
<1>1. /\ f \in [1..0 -> 1..0] /\ << >> \in Seq(T) /\ Len(<< >>) = 0
      /\ \A i \in 1..0 : f[i] \in keep /\ << >>[i] = u[f[i]]
      /\ \A i, j \in 1..0 : i < j => f[i] < f[j]
      /\ \A k \in 1..0 : k \in keep => \E i \in 1..0 : f[i] = k
  OBVIOUS
<1> HIDE DEF f
<1> DEFINE e == << >>
<1>2. e \in Seq(T) /\ Len(e) = 0 /\ \A i \in 1..Len(e) : FALSE
  OBVIOUS
<1>3. f \in [1..Len(e) -> 1..0] /\ \A k \in 1..0 : FALSE
  BY <1>1, <1>2
<1> HIDE DEF e
<1>4. Kept(T, u, keep, 0, e)
  <2>1. \A i, j \in 1..Len(e) : i < j => f[i] < f[j]
    BY <1>2
  <2>2. Len(e) <= 0
    BY <1>2
  <2> QED BY <1>2, <1>3, <2>1, <2>2 DEF Kept
<1> QED BY <1>4 DEF e

\* ... an entry that is kept comes behind the others; ...
LEMMA KeptMore ==
  ASSUME NEW T, NEW u, NEW keep, NEW n \in Nat \ {0}, NEW w, Kept(T, u, keep, n - 1, w), u[n] \in T, n \in keep
  PROVE  Kept(T, u, keep, n, Append(w, u[n]))
<1> DEFINE L == Len(w)
           y == Append(w, u[n])
<1>1. w \in Seq(T) /\ L \in Nat
  BY LenProperties DEF Kept
<1>2. PICK f \in [1..L -> 1..n - 1] :
                  /\ \A i \in 1..L : f[i] \in keep /\ w[i] = u[f[i]]
                  /\ \A i, j \in 1..L : i < j => f[i] < f[j]
                  /\ \A k \in 1..n - 1 : k \in keep => \E i \in 1..L : f[i] = k
  BY DEF Kept
<1>3. y \in Seq(T) /\ Len(y) = L + 1 /\ (\A i \in 1..L : y[i] = w[i]) /\ y[L + 1] = u[n]
  BY <1>1, AppendProperties
<1> DEFINE g == [i \in 1..L + 1 |-> IF i = L + 1 THEN n ELSE f[i]]
<1> HIDE DEF L, y
<1>4. /\ g \in [1..L + 1 -> 1..n] /\ g[L + 1] = n
      /\ \A i \in 1..L : g[i] = f[i] /\ i \in 1..L + 1
      /\ \A i \in 1..L + 1 : i = L + 1 \/ i \in 1..L
  BY <1>1
<1> HIDE DEF g
<1>5. \A i \in 1..L + 1 : g[i] \in keep /\ y[i] = u[g[i]]
  BY <1>2, <1>3, <1>4
<1>6. ASSUME NEW i \in 1..L + 1, NEW j \in 1..L + 1, i < j PROVE g[i] < g[j]
  <2>1. i \in 1..L /\ g[i] = f[i] /\ f[i] \in 1..n - 1
    BY <1>1, <1>4, <1>6
  <2> QED BY <1>2, <1>4, <1>6, <2>1
<1>7. ASSUME NEW k \in 1..n, k \in keep PROVE \E i \in 1..L + 1 : g[i] = k
  <2>1. CASE k = n
    <3>1. L + 1 \in 1..L + 1
      BY <1>1
    <3> QED BY <1>4, <2>1, <3>1
  <2>2. CASE k # n
    <3>1. PICK i \in 1..L : f[i] = k
      BY <1>2, <1>7, <2>2
    <3> QED BY <1>4, <3>1
  <2> QED BY <2>1, <2>2
<1>8. Kept(T, u, keep, n, y)
  <2> DEFINE M == L + 1
  <2>1. /\ g \in [1..M -> 1..n]
        /\ \A i \in 1..M : g[i] \in keep /\ y[i] = u[g[i]]
        /\ \A i, j \in 1..M : i < j => g[i] < g[j]
        /\ \A k \in 1..n : k \in keep => \E i \in 1..M : g[i] = k
    BY <1>4, <1>5, <1>6, <1>7
  <2>2. Len(y) = M
    BY <1>3
  <2>3. M <= n
    <3>1. L <= n - 1
      BY DEF Kept, L
    <3> QED BY <1>1, <3>1
  <2> HIDE DEF M
  <2> QED BY <1>1, <1>3, <2>1, <2>2, <2>3, ZenonT(40) DEF Kept
<1> QED BY <1>8 DEF y

\* ... one that is not changes nothing.
LEMMA KeptSame ==
  ASSUME NEW T, NEW u, NEW keep, NEW n \in Nat \ {0}, NEW w, Kept(T, u, keep, n - 1, w), n \notin keep
  PROVE  Kept(T, u, keep, n, w)
<1>1. PICK f \in [1..Len(w) -> 1..n - 1] :
                  /\ \A i \in 1..Len(w) : f[i] \in keep /\ w[i] = u[f[i]]
                  /\ \A i, j \in 1..Len(w) : i < j => f[i] < f[j]
                  /\ \A k \in 1..n - 1 : k \in keep => \E i \in 1..Len(w) : f[i] = k
  BY DEF Kept
<1>2. f \in [1..Len(w) -> 1..n]
  OBVIOUS
<1>3. \A k \in 1..n : k \in keep => \E i \in 1..Len(w) : f[i] = k
  BY <1>1
<1>4. w \in Seq(T) /\ Len(w) <= n - 1 /\ Len(w) \in Nat
  BY LenProperties DEF Kept
<1>5. Len(w) <= n
  BY <1>4
<1> QED BY <1>1, <1>2, <1>3, <1>4, <1>5 DEF Kept

\* Pick gives the entries of a table that are kept, in their order.
LEMMA PickFacts ==
  ASSUME NEW T, NEW u \in Seq(T), NEW keep
  PROVE  Kept(T, u, keep, Len(u), Pick(u, keep))
<1> DEFINE N == Len(u)
           P(s) == s = [n \in 0..N |-> IF n = 0 THEN << >> ELSE IF n \in keep THEN Append(s[n - 1], u[n]) ELSE s[n - 1]]
           S == Seq(T)
           a == << >>
           G == [n \in 1..N |-> [x \in S |-> IF n \in keep THEN Append(x, u[n]) ELSE x]]
<1>1. N \in Nat /\ \A n \in 1..N : u[n] \in T
  BY LenProperties, ElementOfSeq
<1> HIDE DEF N
<1>2. G \in [1..N -> [S -> S]] /\ a \in S
  BY <1>1, AppendProperties
<1>3. PICK s \in [0..N -> S] : s[0] = a /\ \A n \in 1..N : s[n] = G[n][s[n - 1]]
  <2> HIDE DEF S, a, G
  <2>1. N \in Nat
    BY <1>1
  <2>2. \E s \in [0..N -> S] : s[0] = a /\ \A n \in 1..N : s[n] = G[n][s[n - 1]]
    BY <1>2, <2>1, Recursion
  <2> QED BY <2>2
<1>4. P(s)
  <2>1. ASSUME NEW n \in 0..N
        PROVE  s[n] = IF n = 0 THEN << >> ELSE IF n \in keep THEN Append(s[n - 1], u[n]) ELSE s[n - 1]
    <3>1. n # 0 => n \in 1..N /\ s[n - 1] \in S
      BY <1>1
    <3> QED BY <1>3, <3>1
  <2>2. s = [n \in 0..N |-> s[n]]
    OBVIOUS
  <2> QED BY <2>1, <2>2, Zenon
<1>5. Taken(u, keep) = CHOOSE f : P(f)
  BY Zenon DEF Taken, N
<1>6. P(CHOOSE f : P(f))
  <2> HIDE DEF P
  <2> QED BY <1>4, Zenon
<1> DEFINE t == Taken(u, keep)
<1>7. t = [n \in 0..N |-> IF n = 0 THEN << >> ELSE IF n \in keep THEN Append(t[n - 1], u[n]) ELSE t[n - 1]]
  BY <1>5, <1>6, Zenon
<1> HIDE DEF t, S, G, a
<1> DEFINE I == {n \in 0..N : Kept(T, u, keep, n, t[n])}
<1>8. 0 \in I
  <2>1. t[0] = << >>
    BY <1>1, <1>7
  <2> QED BY <1>1, <2>1, KeptNone
<1>9. ASSUME NEW n \in 1..N, n - 1 \in I PROVE n \in I
  <2>1. n \in 0..N /\ n # 0 /\ n \in Nat \ {0} /\ Kept(T, u, keep, n - 1, t[n - 1])
    BY <1>1, <1>9
  <2>2. CASE n \in keep
    <3>1. t[n] = Append(t[n - 1], u[n])
      BY <1>7, <2>1, <2>2
    <3>2. Kept(T, u, keep, n, Append(t[n - 1], u[n]))
      BY <1>1, <2>1, <2>2, KeptMore
    <3> QED BY <2>1, <3>1, <3>2
  <2>3. CASE n \notin keep
    <3>1. t[n] = t[n - 1]
      BY <1>7, <2>1, <2>3
    <3>2. Kept(T, u, keep, n, t[n - 1])
      BY <2>1, <2>3, KeptSame
    <3> QED BY <2>1, <3>1, <3>2
  <2> QED BY <2>2, <2>3
<1>10. \A n \in 0..N : n \in I
  <2> HIDE DEF I
  <2> QED BY <1>1, <1>8, <1>9, UpTo
<1>11. Kept(T, u, keep, N, t[N])
  BY <1>1, <1>10
<1> QED BY <1>11 DEF t, N, Pick

-----------------------------------------------------------------------------
(* The binary search. *)

\* One call of the search, whose recursive calls are f's.
SearchBody(u, addr, f, n, s) ==
  LET mid == s + n \div 2 IN
        IF n < 2 THEN (IF n = 1 /\ u[s].start = addr THEN s ELSE 0)
        ELSE IF u[mid].start = addr THEN mid
        ELSE IF u[mid].start < addr THEN f[(n - 1) \div 2][mid + 1]
        ELSE f[n \div 2][s]

Halves(n) == n >= 2 => n \div 2 \in 0..n - 1 /\ (n - 1) \div 2 \in 0..n - 1 /\ n \div 2 + (n - 1) \div 2 = n - 1

\* The halves that the search goes on with are shorter.
LEMMA HalvesFacts == ASSUME NEW n \in Nat PROVE Halves(n) /\ (n >= 2 => n \div 2 \in 1..n - 1)
BY DEF Halves

SearchUpto(u, addr, N, f) == f = [n \in 0..N |-> [s \in 1..Len(u) |-> SearchBody(u, addr, f, n, s)]]

\* The search is defined: it calls itself for less only.
LEMMA SearchExists ==
  ASSUME NEW u, NEW addr, NEW N \in Nat
  PROVE  \E f : SearchUpto(u, addr, N, f)
<1> DEFINE I == {n \in 0..N : \E f : SearchUpto(u, addr, n, f)}
<1>1. 0 \in I
  <2> DEFINE f == [n \in 0..0 |-> [s \in 1..Len(u) |-> 0]]
  <2>1. ASSUME NEW n \in 0..0, NEW s \in 1..Len(u) PROVE SearchBody(u, addr, f, n, s) = 0
    BY DEF SearchBody
  <2>2. f = [n \in 0..0 |-> [s \in 1..Len(u) |-> SearchBody(u, addr, f, n, s)]]
    <3> HIDE DEF f
    <3>1. f = [n \in 0..0 |-> [s \in 1..Len(u) |-> 0]]
      BY DEF f
    <3> QED BY <2>1, <3>1
  <2> HIDE DEF f
  <2>3. SearchUpto(u, addr, 0, f)
    BY <2>2, Zenon DEF SearchUpto
  <2> QED BY <2>3
<1>2. ASSUME NEW n \in 1..N, n - 1 \in I PROVE n \in I
  <2>1. PICK f : SearchUpto(u, addr, n - 1, f)
    BY <1>2
  <2> DEFINE t == [k \in 0..n |-> [s \in 1..Len(u) |-> SearchBody(u, addr, f, k, s)]]
  <2>2. f = [k \in 0..n - 1 |-> [s \in 1..Len(u) |-> SearchBody(u, addr, f, k, s)]]
    BY <2>1, Zenon DEF SearchUpto
  <2>3. ASSUME NEW k \in 0..n - 1 PROVE t[k] = f[k]
    <3>1. k \in 0..n
      OBVIOUS
    <3>2. t[k] = [s \in 1..Len(u) |-> SearchBody(u, addr, f, k, s)]
      BY <3>1, Zenon
    <3>3. f[k] = [s \in 1..Len(u) |-> SearchBody(u, addr, f, k, s)]
      BY <2>2, Zenon
    <3> QED BY <3>2, <3>3
  <2>4. t = [k \in 0..n |-> [s \in 1..Len(u) |-> SearchBody(u, addr, f, k, s)]]
    OBVIOUS
  <2> HIDE DEF t
  <2>5. ASSUME NEW k \in 0..n, NEW s \in 1..Len(u)
        PROVE  SearchBody(u, addr, t, k, s) = SearchBody(u, addr, f, k, s)
    <3>1. CASE k < 2
      BY <3>1 DEF SearchBody
    <3>2. CASE ~(k < 2)
      <4>1. k \div 2 \in 0..n - 1 /\ (k - 1) \div 2 \in 0..n - 1
        BY <3>2, HalvesFacts DEF Halves
      <4>2. t[k \div 2] = f[k \div 2] /\ t[(k - 1) \div 2] = f[(k - 1) \div 2]
        BY <2>3, <4>1
      <4> QED BY <4>2, Zenon DEF SearchBody
    <3> QED BY <3>1, <3>2
  <2>6. SearchUpto(u, addr, n, t)
    <3>1. t = [k \in 0..n |-> [s \in 1..Len(u) |-> SearchBody(u, addr, t, k, s)]]
      BY <2>4, <2>5
    <3> QED BY <3>1, Zenon DEF SearchUpto
  <2> QED BY <2>6
<1>3. \A n \in 0..N : n \in I
  <2> HIDE DEF I
  <2> QED BY <1>1, <1>2, UpTo
<1> QED BY <1>3

Sorted(u) == \A i, j \in 1..Len(u) : i < j => u[i].start < u[j].start
Found(u, addr, n, s, r) ==
  \/ r = 0 /\ \A k \in s..s + n - 1 : u[k].start # addr
  \/ r \in s..s + n - 1 /\ u[r].start = addr

\* The search gives the number of the unit that starts at the address, or 0 if there is none.
LEMMA SearchFacts ==
  ASSUME NEW u, Len(u) \in Nat, \A i \in 1..Len(u) : u[i].start \in Nat, Sorted(u), NEW addr \in Nat,
         NEW n \in 0..Len(u), NEW s \in 1..Len(u), s + n <= Len(u)
  PROVE  Found(u, addr, n, s, Search(u, addr)[n][s])
<1> DEFINE N == Len(u)
           P(f) == f = [n_1 \in 0..N |-> [s_1 \in 1..N |-> SearchBody(u, addr, f, n_1, s_1)]]
           f == Search(u, addr)
<1>1. \E g : P(g)
  <2>1. \E g : SearchUpto(u, addr, N, g)
    BY SearchExists
  <2> QED BY <2>1, Zenon DEF SearchUpto
<1>2. f = CHOOSE g : P(g)
  BY Zenon DEF Search, SearchBody
<1>3. P(CHOOSE g : P(g))
  <2> HIDE DEF P
  <2> QED BY <1>1, Zenon
<1>4. P(f)
  <2> HIDE DEF P, f
  <2> QED BY <1>2, <1>3, Zenon
<1> HIDE DEF f
<1>5. ASSUME NEW k \in 0..N, NEW x \in 1..N PROVE f[k][x] = SearchBody(u, addr, f, k, x)
  <2>1. f[k] = [y \in 1..N |-> SearchBody(u, addr, f, k, y)]
    BY <1>4, Zenon
  <2> QED BY <2>1, Zenon
<1> HIDE DEF P
<1> DEFINE I == {k \in 0..N : \A x \in 1..N : x + k <= N => Found(u, addr, k, x, f[k][x])}
<1>6. ASSUME NEW k \in 0..N, \A m \in 0..k - 1 : m \in I PROVE k \in I
  <2> SUFFICES ASSUME NEW x \in 1..N, x + k <= N PROVE Found(u, addr, k, x, f[k][x])
    OBVIOUS
  <2>1. f[k][x] = SearchBody(u, addr, f, k, x)
    BY <1>5
  <2>2. CASE k < 2
    <3>1. SearchBody(u, addr, f, k, x) = IF k = 1 /\ u[x].start = addr THEN x ELSE 0
      BY <2>2 DEF SearchBody
    <3> QED BY <2>1, <2>2, <3>1 DEF Found
  <2>3. CASE ~(k < 2)
    <3> DEFINE h == k \div 2
               g == (k - 1) \div 2
               mid == x + h
    <3>1. h \in 1..k - 1 /\ g \in 0..k - 1 /\ h + g = k - 1 /\ k >= 2
      BY <2>3, HalvesFacts DEF Halves
    <3>2. SearchBody(u, addr, f, k, x) =
            IF u[mid].start = addr THEN mid ELSE IF u[mid].start < addr THEN f[g][mid + 1] ELSE f[h][x]
      BY <2>3 DEF SearchBody
    <3> HIDE DEF h, g
    <3>3. h \in Nat /\ g \in Nat /\ mid \in 1..N /\ mid + 1 \in 1..N /\ mid + 1 + g = x + k /\ mid \in x..x + k - 1
      BY <3>1
    <3>7. u[mid].start \in Nat
      BY <3>3
    <3> HIDE DEF mid
    <3>4. CASE u[mid].start = addr
      BY <2>1, <3>2, <3>3, <3>4 DEF Found
    <3>5. CASE u[mid].start # addr /\ u[mid].start < addr
      <4>1. Found(u, addr, g, mid + 1, f[g][mid + 1])
        BY <1>6, <3>1, <3>3
      <4>2. f[k][x] = f[g][mid + 1]
        BY <2>1, <3>2, <3>5
      <4>3. \A j \in x..x + k - 1 : j \in mid + 1..mid + 1 + g - 1 \/ u[j].start < addr
        <5> SUFFICES ASSUME NEW j \in x..x + k - 1, ~(j \in mid + 1..mid + 1 + g - 1) PROVE u[j].start < addr
          OBVIOUS
        <5>1. j \in 1..N /\ (j = mid \/ j < mid) /\ u[j].start \in Nat
          BY <3>3
        <5>2. j < mid => u[j].start < u[mid].start
          BY <3>3, <5>1 DEF Sorted
        <5> QED BY <3>7, <3>5, <5>1, <5>2
      <4>4. \A j \in mid + 1..mid + 1 + g - 1 : j \in x..x + k - 1
        BY <3>1, <3>3
      <4>5. \A j \in x..x + k - 1 : u[j].start < addr => u[j].start # addr
        <5> SUFFICES ASSUME NEW j \in x..x + k - 1, u[j].start < addr PROVE u[j].start # addr
          OBVIOUS
        <5>1. j \in 1..N
          BY <3>1
        <5>2. u[j].start \in Nat
          BY <5>1
        <5> QED BY <5>2
      <4> QED BY <4>1, <4>2, <4>3, <4>4, <4>5 DEF Found
    <3>6. CASE u[mid].start # addr /\ ~(u[mid].start < addr)
      <4>1. Found(u, addr, h, x, f[h][x])
        <5>1. x + h <= N /\ h \in 0..k - 1
          BY <3>1
        <5> QED BY <1>6, <5>1
      <4>2. f[k][x] = f[h][x]
        BY <2>1, <3>2, <3>6
      <4>3. \A j \in x..x + k - 1 : j \in x..x + h - 1 \/ u[j].start # addr
        <5> SUFFICES ASSUME NEW j \in x..x + k - 1, ~(j \in x..x + h - 1) PROVE u[j].start # addr
          OBVIOUS
        <5>1. j \in 1..N /\ (j = mid \/ mid < j)
          BY <3>3 DEF mid
        <5>2. u[j].start \in Nat
          BY <5>1
        <5>3. mid < j => u[mid].start < u[j].start
          BY <3>3, <5>1 DEF Sorted
        <5> QED BY <3>7, <3>6, <5>1, <5>2, <5>3
      <4>4. \A j \in x..x + h - 1 : j \in x..x + k - 1
        BY <3>1
      <4> QED BY <4>1, <4>2, <4>3, <4>4 DEF Found
    <3> QED BY <3>4, <3>5, <3>6
  <2> QED BY <2>2, <2>3
<1>7. \A k \in 0..N : k \in I
  <2> HIDE DEF I
  <2> QED BY <1>6, UpToAll
<1> QED BY <1>7 DEF f

-----------------------------------------------------------------------------
(* A heap and its blocks. *)

\* A table that may still have free neighbours.
Loose(u, from, to) ==
  /\ u \in Seq(Tag) /\ Len(u) \in 2..MaxUnits
  /\ u[1].start = from /\ u[Len(u)] = Unit(to, "used")
  /\ Sorted(u)
  /\ \A i \in 1..Len(u) - 1 : u[i].state \in {"free", "void"} \cup Names

\* What its units are.
Table(u, from, to) ==
  /\ Len(u) \in Nat /\ Len(u) >= 2 /\ DOMAIN u = 1..Len(u) /\ to \in Nat
  /\ \A i \in 1..Len(u) : u[i] \in Tag /\ u[i].start \in Nat /\ from <= u[i].start /\ u[i].start <= to
  /\ \A i \in 1..Len(u) - 1 : /\ u[i].start < u[i + 1].start
                              /\ u[i].state \in {"free", "void"} \cup Names
  /\ u[Len(u)].start = to /\ u[Len(u)].state = "used"

\* What the entries of a table are.
LEMMA TableFacts == ASSUME NEW u, NEW from \in Nat, NEW to, Loose(u, from, to) PROVE Table(u, from, to)
<1>1. u \in Seq(Tag) /\ Len(u) \in Nat /\ Len(u) >= 2 /\ DOMAIN u = 1..Len(u) /\ MaxUnits \in Nat
  BY MaxUnitsAssumption, LenProperties DEF Loose
<1>2. \A i \in 1..Len(u) : u[i] \in Tag
  BY <1>1, ElementOfSeq
<1>3. \A i \in 1..Len(u) : u[i].start \in Nat
  BY <1>2 DEF Tag
<1>4. u[1].start = from /\ u[Len(u)].start = to /\ u[Len(u)].state = "used"
  BY DEF Loose, Unit
<1>5. to \in Nat
  BY <1>1, <1>3, <1>4
<1>6. ASSUME NEW i \in 1..Len(u) PROVE from <= u[i].start /\ u[i].start <= to
  <2>1. 1 \in 1..Len(u) /\ Len(u) \in 1..Len(u) /\ u[i].start \in Nat
    BY <1>1, <1>3
  <2>2. i = 1 \/ u[1].start < u[i].start
    BY <2>1 DEF Loose, Sorted
  <2>3. i = Len(u) \/ u[i].start < u[Len(u)].start
    BY <2>1 DEF Loose, Sorted
  <2> QED BY <1>4, <1>5, <2>1, <2>2, <2>3
<1>7. ASSUME NEW i \in 1..Len(u) - 1 PROVE u[i].start < u[i + 1].start
  <2>1. i \in 1..Len(u) /\ i + 1 \in 1..Len(u) /\ i < i + 1
    BY <1>1
  <2> QED BY <2>1 DEF Loose, Sorted
<1> QED BY <1>1, <1>2, <1>3, <1>4, <1>5, <1>6, <1>7 DEF Table, Loose

\* The table of a heap between two operations has no free neighbours.
LEMMA CutLoose ==
  ASSUME NEW u, NEW from, NEW to
  PROVE  Cut(u, from, to) <=> Loose(u, from, to) /\ \A i \in 1..Len(u) - 1 : u[i].state = "free" => u[i + 1].state # "free"
BY DEF Cut, Loose, Sorted

\* A heap's blocks, by their units.
LEMMA BlockFacts ==
  ASSUME NEW m, NEW from \in Nat, NEW to, Loose(m.units, from, to), NEW i \in 1..InUse(m)
  PROVE  LET b == BlockAt(m, i) IN
         /\ i \in 1..Len(m.units) /\ i + 1 \in 1..Len(m.units) /\ InUse(m) = Len(m.units) - 1 /\ InUse(m) \in Nat
         /\ b.start = m.units[i].start /\ b.by = m.units[i].state
         /\ b.start \in Nat /\ b.size \in Nat \ {0} /\ SizeOf(m, i) = b.size
         /\ b.start + b.size = m.units[i + 1].start
         /\ from <= b.start /\ b.start + b.size <= to
<1>1. Table(m.units, from, to)
  BY TableFacts
<1>2. i \in 1..Len(m.units) /\ i + 1 \in 1..Len(m.units) /\ InUse(m) = Len(m.units) - 1 /\ InUse(m) \in Nat
  BY <1>1 DEF Table, InUse
<1>3. m.units[i].start < m.units[i + 1].start /\ m.units[i].start \in Nat /\ m.units[i + 1].start \in Nat
      /\ from <= m.units[i].start /\ m.units[i + 1].start <= to
  BY <1>1, <1>2 DEF Table
<1> QED BY <1>2, <1>3, SMTT(20) DEF BlockAt, SizeOf

\* A heap's blocks lie in its range and do not overlap.
LEMMA HeapBlocks ==
  ASSUME NEW m, NEW from \in Nat, NEW to, Loose(m.units, from, to)
  PROVE  /\ \A b \in LiveIn(m) \cup FreeIn(m) :
              b.start \in Nat /\ b.size \in Nat \ {0} /\ from <= b.start /\ b.start + b.size <= to
         /\ \A b \in LiveIn(m) : b.by \in Names /\ b = [start |-> b.start, size |-> b.size, by |-> b.by]
         /\ \A b, c \in LiveIn(m) \cup FreeIn(m) : Overlap(b, c) => b = c
         /\ \A b, c \in LiveIn(m) \cup FreeIn(m) : b.start = c.start => b = c
<1>1. \A i \in 1..InUse(m) : /\ m.units[i].state \in {"free", "void"} \cup Names
                             /\ i \in 1..Len(m.units) /\ i + 1 \in 1..Len(m.units)
  BY BlockFacts, TableFacts DEF Table
<1>2. \A b \in LiveIn(m) \cup FreeIn(m) : \E i \in 1..InUse(m) : b = BlockAt(m, i)
  BY DEF LiveIn, FreeIn
<1>3. ASSUME NEW b \in LiveIn(m) PROVE b.by \in Names /\ b = [start |-> b.start, size |-> b.size, by |-> b.by]
  <2>1. PICK i \in 1..InUse(m) : b = BlockAt(m, i) /\ IsLive(m.units[i])
    BY DEF LiveIn
  <2>2. b.by = m.units[i].state
    BY <2>1 DEF BlockAt
  <2> QED BY <1>1, <2>1, <2>2 DEF BlockAt, IsLive
<1>4. ASSUME NEW b \in LiveIn(m) \cup FreeIn(m), NEW c \in LiveIn(m) \cup FreeIn(m), Overlap(b, c) \/ b.start = c.start
      PROVE  b = c
  <2>1. PICK i \in 1..InUse(m) : b = BlockAt(m, i)
    BY <1>2
  <2>2. PICK j \in 1..InUse(m) : c = BlockAt(m, j)
    BY <1>2
  <2>3. /\ b.start = m.units[i].start /\ b.start + b.size = m.units[i + 1].start
        /\ b.start \in Nat /\ b.size \in Nat \ {0}
    BY <2>1, BlockFacts, ZenonT(40)
  <2>4. /\ c.start = m.units[j].start /\ c.start + c.size = m.units[j + 1].start
        /\ c.start \in Nat /\ c.size \in Nat \ {0}
    BY <2>2, BlockFacts
  <2>5. i \in 1..Len(m.units) /\ i + 1 \in 1..Len(m.units) /\ j \in 1..Len(m.units) /\ j + 1 \in 1..Len(m.units)
        /\ i \in Nat /\ j \in Nat
    BY <1>1
  <2>6. i < j => m.units[i + 1].start <= m.units[j].start /\ m.units[i].start < m.units[j].start
    <3>1. i < j => i + 1 = j \/ i + 1 < j
      BY <2>5
    <3>2. i + 1 < j => m.units[i + 1].start < m.units[j].start
      BY <2>5 DEF Loose, Sorted
    <3>3. i < j => m.units[i].start < m.units[j].start
      BY <2>5 DEF Loose, Sorted
    <3> QED BY <2>3, <2>4, <3>1, <3>2, <3>3
  <2>7. j < i => m.units[j + 1].start <= m.units[i].start /\ m.units[j].start < m.units[i].start
    <3>1. j < i => j + 1 = i \/ j + 1 < i
      BY <2>5
    <3>2. j + 1 < i => m.units[j + 1].start < m.units[i].start
      BY <2>5 DEF Loose, Sorted
    <3>3. j < i => m.units[j].start < m.units[i].start
      BY <2>5 DEF Loose, Sorted
    <3> QED BY <2>3, <2>4, <3>1, <3>2, <3>3
  <2>8. ~(i < j)
    BY <1>4, <2>3, <2>4, <2>6 DEF Overlap
  <2>9. ~(j < i)
    BY <1>4, <2>3, <2>4, <2>7 DEF Overlap
  <2>10. i = j
    BY <2>5, <2>8, <2>9
  <2> QED BY <2>1, <2>2, <2>10
<1>5. \A b \in LiveIn(m) \cup FreeIn(m) :
              b.start \in Nat /\ b.size \in Nat \ {0} /\ from <= b.start /\ b.start + b.size <= to
  <2> TAKE b \in LiveIn(m) \cup FreeIn(m)
  <2>1. PICK i \in 1..InUse(m) : b = BlockAt(m, i)
    BY <1>2
  <2> QED BY <2>1, BlockFacts
<1> QED BY <1>3, <1>4, <1>5

\* An address lies in a unit.
LEMMA Located ==
  ASSUME NEW u, NEW from \in Nat, NEW to, Table(u, from, to), NEW p \in Nat, u[1].start <= p, p < to
  PROVE  \E k \in 1..Len(u) - 1 : u[k].start <= p /\ p < u[k + 1].start
<1> DEFINE T == {k \in 1..Len(u) : p < u[k].start}
<1>1. Len(u) \in T /\ T \subseteq Nat
  BY DEF Table
<1>2. PICK k \in T : \A j \in T : k <= j
  <2> HIDE DEF T
  <2> QED BY <1>1, Least
<1>3. k \in 1..Len(u) /\ Len(u) \in Nat /\ p < u[k].start /\ u[1].start \in Nat
  BY DEF Table
<1>4. k # 1
  BY <1>3
<1>5. k - 1 \in 1..Len(u) /\ k - 1 \in 1..Len(u) - 1 /\ (k - 1) + 1 = k /\ ~(k <= k - 1)
  BY <1>3, <1>4
<1>6. ~(p < u[k - 1].start) /\ u[k - 1].start \in Nat
  BY <1>2, <1>5 DEF Table
<1>7. u[k - 1].start <= p /\ p < u[(k - 1) + 1].start
  BY <1>3, <1>5, <1>6
<1> QED BY <1>5, <1>7

\* The search finds the unit that starts at an address.
THEOREM FindAllocation ==
  ASSUME NEW m, NEW from \in Nat, NEW to, Loose(m.units, from, to), NEW i \in 1..InUse(m)
  PROVE  GV_FindAllocation(m, m.units[i].start) = i
<1> DEFINE u == m.units
           addr == u[i].start
           r == Search(u, addr)[InUse(m)][1]
<1>1. Table(u, from, to) /\ Sorted(u)
  BY TableFacts DEF Loose
<1>2. /\ i \in 1..Len(u) /\ i + 1 \in 1..Len(u) /\ InUse(m) = Len(u) - 1 /\ InUse(m) \in Nat /\ Len(u) \in Nat
      /\ addr \in Nat /\ addr < u[i + 1].start /\ u[i + 1].start <= to
      /\ \A k \in 1..Len(u) : u[k].start \in Nat /\ u[k].start <= to
      /\ u[Len(u)].start = to /\ to \in Nat
  BY <1>1, BlockFacts DEF Table, InUse
<1>3. u[1].start <= addr
  <2>1. 1 \in 1..Len(u) /\ (i = 1 \/ 1 < i)
    BY <1>2
  <2> QED BY <1>1, <1>2, <2>1 DEF Sorted
<1>4. addr < HeapEnd(m)
  BY <1>2 DEF HeapEnd, Last
<1>5. Found(u, addr, InUse(m), 1, r)
  <2>1. InUse(m) \in 0..Len(u) /\ 1 \in 1..Len(u) /\ 1 + InUse(m) <= Len(u)
    BY <1>2
  <2> HIDE DEF u, addr
  <2> QED BY <1>1, <1>2, <2>1, SearchFacts
<1> HIDE DEF r
<1>6. r \in 1..InUse(m) /\ u[r].start = addr
  <2>1. i \in 1..1 + InUse(m) - 1
    BY <1>2
  <2> QED BY <1>2, <1>5, <2>1 DEF Found
<1>7. r = i
  <2>1. r \in 1..Len(u) /\ (r < i \/ r = i \/ i < r)
    BY <1>2, <1>6
  <2>2. r < i => u[r].start < u[i].start
    BY <1>1, <1>2, <2>1 DEF Sorted
  <2>3. i < r => u[i].start < u[r].start
    BY <1>1, <1>2, <2>1 DEF Sorted
  <2> QED BY <1>2, <1>6, <2>1, <2>2, <2>3
<1> QED BY <1>3, <1>4, <1>7 DEF GV_FindAllocation, r

-----------------------------------------------------------------------------
(* A unit changes its state; a delayed free. *)

\* Blocks are those of the table.
LEMMA SameBlocks ==
  ASSUME NEW m, NEW n, m.units = n.units
  PROVE  LiveIn(m) = LiveIn(n) /\ FreeIn(m) = FreeIn(n)
<1>1. InUse(m) = InUse(n) /\ \A i : BlockAt(m, i) = BlockAt(n, i)
  BY DEF InUse, BlockAt, SizeOf
<1> QED BY <1>1 DEF LiveIn, FreeIn

\* One unit changes its state.
Restate(u, i, st) == [u EXCEPT ![i].state = st]

\* What n has of m's units if that is all.
Changed(m, n, i, st) ==
  /\ Len(n.units) = Len(m.units) /\ InUse(n) = InUse(m)
  /\ \A j \in 1..Len(m.units) : n.units[j].start = m.units[j].start
                                /\ n.units[j].state = IF j = i THEN st ELSE m.units[j].state
  /\ \A j \in 1..InUse(m) : j # i => BlockAt(n, j) = BlockAt(m, j)
  /\ BlockAt(n, i) = [start |-> BlockAt(m, i).start, size |-> BlockAt(m, i).size, by |-> st]

\* What changes when one unit changes its state: the blocks of the other units stay.
LEMMA Restated ==
  ASSUME NEW m, NEW from \in Nat, NEW to, Loose(m.units, from, to), NEW i \in 1..InUse(m), NEW n,
         NEW st \in {"free", "void"} \cup Names, n.units = Restate(m.units, i, st)
  PROVE  Loose(n.units, from, to) /\ Changed(m, n, i, st)
<1> DEFINE u == m.units
           v == n.units
           L == Len(m.units)
<1>1. Table(u, from, to) /\ Sorted(u) /\ u \in Seq(Tag) /\ L \in 2..MaxUnits
  BY TableFacts DEF Loose
<1>2. /\ i \in 1..L /\ i + 1 \in 1..L /\ InUse(m) = L - 1 /\ L \in Nat /\ i # L /\ L \in 1..L
  <2>1. Table(u, from, to)
    BY <1>1
  <2> QED BY <2>1, BlockFacts DEF Table, InUse
<1>3. u \in [1..L -> Tag]
  BY <1>1, <1>2
<1>4. v = [u EXCEPT ![i] = [@ EXCEPT !.state = st]]
  BY DEF Restate
<1>5. u[i] = [start |-> u[i].start, state |-> u[i].state] /\ u[i].start \in Nat /\ u[i] \in Tag
  BY <1>2, <1>3 DEF Tag
<1>6. [u[i] EXCEPT !.state = st] = [start |-> u[i].start, state |-> st]
  BY <1>5
<1>7. v = [u EXCEPT ![i] = [start |-> u[i].start, state |-> st]]
  BY <1>4, <1>6
<1>8. [start |-> u[i].start, state |-> st] \in Tag
  BY <1>5 DEF Tag
<1>18. Len(u) = L
  OBVIOUS
<1> HIDE DEF u, v, L
<1>9. v \in [1..L -> Tag] /\ \A j \in 1..L : v[j] = IF j = i THEN [start |-> u[i].start, state |-> st] ELSE u[j]
  BY <1>2, <1>3, <1>7, <1>8
<1>10. v \in Seq(Tag) /\ Len(v) = L
  BY <1>2, <1>9, SeqOfLength
<1>11. \A j \in 1..L : v[j].start = u[j].start /\ v[j].state = IF j = i THEN st ELSE u[j].state
  BY <1>9
<1>12. Sorted(v)
  BY <1>1, <1>10, <1>11, <1>18 DEF Sorted
<1>13. Loose(v, from, to)
  <2>1. u[1].start = from /\ u[L] = Unit(to, "used")
    BY DEF Loose, u, L
  <2>2. v[1].start = from /\ v[L] = u[L]
    BY <1>2, <1>9, <1>11, <2>1
  <2>3. \A j \in 1..L - 1 : v[j].state \in {"free", "void"} \cup Names
    BY <1>1, <1>2, <1>11, <1>18 DEF Table
  <2> QED BY <1>1, <1>10, <1>12, <2>1, <2>2, <2>3 DEF Loose
<1>14. InUse(n) = InUse(m)
  BY <1>2, <1>10 DEF InUse, v
<1>15. ASSUME NEW j \in 1..InUse(m)
       PROVE BlockAt(n, j) = [start |-> BlockAt(m, j).start, size |-> BlockAt(m, j).size, by |-> n.units[j].state]
  <2>1. j \in 1..L /\ j + 1 \in 1..L
    BY <1>2
  <2>2. SizeOf(n, j) = SizeOf(m, j) /\ n.units[j].start = m.units[j].start
    BY <1>11, <2>1 DEF SizeOf, u, v
  <2> QED BY <2>2 DEF BlockAt
<1>16. ASSUME NEW j \in 1..InUse(m), j # i PROVE BlockAt(n, j) = BlockAt(m, j)
  <2>1. n.units[j].state = m.units[j].state
    BY <1>2, <1>11, <1>16 DEF u, v
  <2> QED BY <1>15, <2>1 DEF BlockAt
<1>17. n.units[i].state = st
  BY <1>2, <1>11 DEF v
<1>19. BlockAt(n, i) = [start |-> BlockAt(m, i).start, size |-> BlockAt(m, i).size, by |-> st]
  BY <1>15, <1>17
<1> QED BY <1>10, <1>11, <1>13, <1>14, <1>16, <1>19 DEF u, v, L, Changed

\* A delayed free only takes the block from its owner.
LEMMA FreeMemory2 ==
  ASSUME NEW m \in Heap, NEW from \in Nat, NEW to, Cut(m.units, from, to), NEW b \in LiveIn(m)
  PROVE  LET n == GV_FreeMemory2(m, b.start) IN
         /\ n \in Heap /\ n.dynamic = m.dynamic /\ Cut(n.units, from, to)
         /\ LiveIn(n) = LiveIn(m) \ {b} /\ FreeIn(n) = FreeIn(m)
<1>1. Loose(m.units, from, to) /\ \A k \in 1..Len(m.units) - 1 : m.units[k].state = "free" => m.units[k + 1].state # "free"
  BY CutLoose
<1>2. PICK i \in 1..InUse(m) : b = BlockAt(m, i) /\ IsLive(m.units[i])
  BY DEF LiveIn
<1>3. GV_FindAllocation(m, b.start) = i /\ i # 0
  <2>1. GV_FindAllocation(m, m.units[i].start) = i
    BY <1>1, FindAllocation
  <2>2. b.start = m.units[i].start
    BY <1>2 DEF BlockAt
  <2>3. i # 0
    BY <1>1, BlockFacts
  <2> QED BY <2>1, <2>2, <2>3
<1> DEFINE n == GV_FreeMemory2(m, b.start)
<1>4. n = [m EXCEPT !.units[i].state = "void", !.voided = TRUE]
  BY <1>3 DEF GV_FreeMemory2
<1>5. n = [m EXCEPT !.units = [m.units EXCEPT ![i].state = "void"], !.voided = TRUE]
  BY <1>4 DEF Heap
<1>6. n.units = Restate(m.units, i, "void") /\ n.dynamic = m.dynamic /\ n.voided = TRUE /\ n.failed = m.failed
  BY <1>5 DEF Heap, Restate
<1> HIDE DEF n
<1>7. /\ Loose(n.units, from, to) /\ Len(n.units) = Len(m.units) /\ InUse(n) = InUse(m)
      /\ \A j \in 1..Len(m.units) : n.units[j].start = m.units[j].start
                                    /\ n.units[j].state = IF j = i THEN "void" ELSE m.units[j].state
      /\ \A j \in 1..InUse(m) : j # i => BlockAt(n, j) = BlockAt(m, j)
  <2>1. "void" \in {"free", "void"} \cup Names
    OBVIOUS
  <2>2. n.units = Restate(m.units, i, "void") /\ Loose(m.units, from, to)
    BY <1>1, <1>6
  <2>3. Loose(n.units, from, to) /\ Changed(m, n, i, "void")
    BY <2>1, <2>2, Restated
  <2> QED BY <2>3 DEF Changed
<1>8. n \in Heap
  <2>1. n.units \in Seq(Tag)
    BY <1>7 DEF Loose
  <2>2. n = [dynamic |-> n.dynamic, voided |-> n.voided, failed |-> n.failed, units |-> n.units]
    BY <1>5 DEF Heap
  <2> QED BY <1>6, <2>1, <2>2 DEF Heap
<1>9. \A k \in 1..InUse(m) : k \in 1..Len(m.units) /\ k + 1 \in 1..Len(m.units) /\ InUse(m) = Len(m.units) - 1
  BY <1>1, BlockFacts
<1>10. Cut(n.units, from, to)
  <2>1. \A k \in 1..Len(n.units) - 1 : n.units[k].state = "free" => n.units[k + 1].state # "free"
    BY <1>1, <1>7, <1>9 DEF InUse
  <2> QED BY <1>7, <2>1, CutLoose
<1>11. FreeIn(n) = FreeIn(m)
  <2>1. m.units[i].state # "free" /\ n.units[i].state # "free"
    BY <1>2, <1>7, <1>9 DEF IsLive
  <2>2. \A k \in 1..InUse(m) : n.units[k].state = "free" <=> m.units[k].state = "free"
    BY <1>7, <1>9, <2>1
  <2> QED BY <1>7, <2>1, <2>2 DEF FreeIn
<1>12. LiveIn(n) = LiveIn(m) \ {b}
  <2>1. \A k \in 1..InUse(m) : IsLive(n.units[k]) <=> IsLive(m.units[k]) /\ k # i
    BY <1>7, <1>9 DEF IsLive
  <2>2. ASSUME NEW k \in 1..InUse(m), k # i PROVE BlockAt(m, k) # b
    <3>1. m.units[k].start # m.units[i].start
      <4>1. (k < i \/ i < k) /\ k \in 1..Len(m.units) /\ i \in 1..Len(m.units)
        BY <1>9, <2>2
      <4>2. m.units[k].start \in Nat /\ m.units[i].start \in Nat
        BY <1>1, TableFacts, <4>1 DEF Table
      <4> QED BY <1>1, <4>1, <4>2 DEF Loose, Sorted
    <3> QED BY <1>2, <3>1 DEF BlockAt
  <2> QED BY <1>2, <1>7, <2>1, <2>2 DEF LiveIn
<1> QED BY <1>6, <1>8, <1>10, <1>11, <1>12 DEF n

-----------------------------------------------------------------------------
(* Free units are joined. *)

\* Units that are removed are free and behind a free one; no other free ones are.
Joins(u, keep) ==
  /\ 1 \in keep /\ Len(u) \in keep
  /\ \A k \in 1..Len(u) :
       /\ k \notin keep => k > 1 /\ u[k].state = "free" /\ u[k - 1].state = "free"
       /\ k \in keep /\ k > 1 /\ u[k].state = "free" => u[k - 1].state # "free"

\* What is free in n was free in m.
Covers(m, n) == \A r \in Piece : \A c \in FreeIn(n) : Overlap(r, c) => \E b \in FreeIn(m) : Overlap(r, b)

\* Joining free units changes no block that has an owner, and makes free what was free.
LEMMA Joined ==
  ASSUME NEW m, NEW from \in Nat, NEW to, Loose(m.units, from, to), NEW keep, Joins(m.units, keep),
         NEW n, n.units = Pick(m.units, keep)
  PROVE  Cut(n.units, from, to) /\ LiveIn(n) = LiveIn(m) /\ Covers(m, n)
<1> DEFINE u == m.units
           t == n.units
           L == Len(u)
           M == Len(t)
<1>1. /\ Table(u, from, to) /\ Sorted(u) /\ u \in Seq(Tag) /\ L \in 2..MaxUnits /\ L \in Nat /\ L >= 2 /\ MaxUnits \in Nat
      /\ u[1].start = from /\ u[L] = Unit(to, "used")
      /\ \A i, j \in 1..L : i < j => u[i].start < u[j].start
      /\ \A k \in 1..L : u[k].start \in Nat
      /\ \A k \in 1..L - 1 : u[k].state \in {"free", "void"} \cup Names
  <2>1. Table(u, from, to)
    BY TableFacts
  <2>2. L \in Nat /\ L >= 2 /\ (\A k \in 1..L : u[k].start \in Nat)
        /\ \A k \in 1..L - 1 : u[k].state \in {"free", "void"} \cup Names
    BY <2>1 DEF Table
  <2> QED BY <2>1, <2>2, MaxUnitsAssumption DEF Loose, Sorted
<1>2. Kept(Tag, u, keep, L, t)
  BY <1>1, PickFacts
<1>3. t \in Seq(Tag) /\ M <= L /\ M \in Nat
  BY <1>2, LenProperties DEF Kept
<1>4. PICK f \in [1..M -> 1..L] :
         /\ \A i \in 1..M : f[i] \in keep /\ t[i] = u[f[i]]
         /\ \A i, j \in 1..M : i < j => f[i] < f[j]
         /\ \A k \in 1..L : k \in keep => \E i \in 1..M : f[i] = k
  BY <1>2 DEF Kept
<1>5. /\ 1 \in keep /\ L \in keep
      /\ \A k \in 1..L : k \notin keep => k > 1 /\ u[k].state = "free" /\ u[k - 1].state = "free"
      /\ \A k \in 1..L : k \in keep /\ k > 1 /\ u[k].state = "free" => u[k - 1].state # "free"
  BY DEF Joins
<1>6. /\ InUse(m) = L - 1 /\ InUse(n) = M - 1
      /\ \A k : BlockAt(m, k) = [start |-> u[k].start, size |-> u[k + 1].start - u[k].start, by |-> u[k].state]
      /\ \A k : BlockAt(n, k) = [start |-> t[k].start, size |-> t[k + 1].start - t[k].start, by |-> t[k].state]
  BY DEF InUse, BlockAt, SizeOf
<1> HIDE DEF u, t, L, M
<1>7. \A i \in 1..M : f[i] \in 1..L /\ f[i] \in Nat
  BY <1>1, <1>4
<1>8. M >= 2 /\ f[1] = 1 /\ f[M] = L
  <2>1. PICK i \in 1..M : f[i] = 1
    BY <1>1, <1>4, <1>5
  <2>2. PICK j \in 1..M : f[j] = L
    BY <1>1, <1>4, <1>5
  <2>3. 1 \in 1..M /\ M \in 1..M /\ i \in Nat /\ j \in Nat
    BY <1>3
  <2>4. i = 1
    <3>1. ~(1 < i)
      <4>1. 1 < i => f[1] < f[i]
        BY <1>4, <2>3
      <4> QED BY <1>7, <2>1, <2>3, <4>1
    <3> QED BY <2>3, <3>1
  <2>5. j = M
    <3>1. ~(j < M)
      <4>1. j < M => f[j] < f[M]
        BY <1>4, <2>3
      <4> QED BY <1>7, <2>2, <2>3, <4>1
    <3> QED BY <1>3, <2>3, <3>1
  <2>6. i # j
    BY <1>1, <2>1, <2>2
  <2> QED BY <1>3, <2>1, <2>2, <2>3, <2>4, <2>5, <2>6
<1>9. ASSUME NEW i \in 1..M - 1
      PROVE  /\ i \in 1..M /\ i + 1 \in 1..M /\ f[i] < f[i + 1] /\ f[i] \in 1..L - 1
             /\ \A k \in 1..L : f[i] < k /\ k < f[i + 1] => k \notin keep
             /\ f[i] + 1 \in keep => f[i + 1] = f[i] + 1
             /\ f[i] \in Nat /\ f[i + 1] \in Nat
  <2>1. i \in 1..M /\ i + 1 \in 1..M /\ i < i + 1
    BY <1>3
  <2>2. f[i] < f[i + 1] /\ f[i] \in 1..L /\ f[i + 1] \in 1..L
    BY <1>4, <1>7, <2>1
  <2>3. f[i] \in 1..L - 1
    BY <1>1, <2>2
  <2>4. ASSUME NEW k \in 1..L, f[i] < k, k < f[i + 1], k \in keep PROVE FALSE
    <3>1. PICK j \in 1..M : f[j] = k
      BY <1>4, <2>4
    <3>2. j < i \/ j = i \/ j = i + 1 \/ i + 1 < j
      BY <1>3
    <3>3. j < i => f[j] < f[i]
      BY <1>4, <2>1
    <3>4. i + 1 < j => f[i + 1] < f[j]
      BY <1>4, <2>1
    <3> QED BY <2>2, <2>4, <3>1, <3>2, <3>3, <3>4
  <2>5. f[i] + 1 \in keep => f[i + 1] = f[i] + 1
    <3>1. f[i] + 1 \in 1..L /\ f[i] < f[i] + 1 /\ (f[i + 1] = f[i] + 1 \/ f[i] + 1 < f[i + 1])
      <4> DEFINE a == f[i]
                 b == f[i + 1]
      <4>1. a < b /\ a \in 1..L /\ b \in 1..L
        BY <2>2
      <4> HIDE DEF a, b
      <4>2. a + 1 \in 1..L /\ a < a + 1 /\ (b = a + 1 \/ a + 1 < b)
        BY <1>1, <4>1
      <4> QED BY <4>2 DEF a, b
    <3> QED BY <2>4, <3>1
  <2> QED BY <2>1, <2>2, <2>3, <2>4, <2>5
<1>10. Loose(t, from, to)
  <2>1. M \in 2..MaxUnits
    BY <1>1, <1>3, <1>8
  <2>2. t[1].start = from /\ t[M] = Unit(to, "used")
    <3>1. t[1] = u[1] /\ t[M] = u[L]
      BY <1>3, <1>4, <1>8
    <3> QED BY <1>1, <3>1
  <2>3. \A i, j \in 1..M : i < j => t[i].start < t[j].start
    BY <1>1, <1>4, <1>7
  <2>4. \A i \in 1..M - 1 : t[i].state \in {"free", "void"} \cup Names
    <3> TAKE i \in 1..M - 1
    <3>1. t[i] = u[f[i]] /\ f[i] \in 1..L - 1
      BY <1>4, <1>9
    <3> QED BY <1>1, <3>1
  <2> QED BY <1>3, <2>1, <2>2, <2>3, <2>4 DEF Loose, Sorted, M
<1>11. \A i \in 1..M - 1 : t[i].state = "free" => t[i + 1].state # "free"
  <2> SUFFICES ASSUME NEW i \in 1..M - 1, t[i + 1].state = "free" PROVE t[i].state # "free"
    OBVIOUS
  <2> DEFINE k == f[i + 1]
  <2>1. k \in 1..L /\ k > 1 /\ k \in keep /\ u[k].state = "free" /\ k - 1 \in 1..L /\ f[i] < k
    <3>1. i + 1 \in 1..M /\ f[i] < k /\ f[i] \in 1..L - 1
      BY <1>9
    <3>2. k \in keep /\ t[i + 1] = u[k] /\ k \in 1..L
      BY <1>4, <3>1
    <3> HIDE DEF k
    <3> QED BY <1>1, <3>1, <3>2
  <2>2. u[k - 1].state # "free"
    BY <1>5, <2>1
  <2>3. f[i] = k - 1
    <3>1. k - 1 \in keep
      <4>1. k - 1 \notin keep => u[k - 1].state = "free"
        BY <1>5, <2>1
      <4> QED BY <2>2, <4>1
    <3>2. ~(f[i] < k - 1)
      BY <1>9, <2>1, <3>1
    <3> QED BY <1>7, <1>9, <2>1, <3>2
  <2> QED BY <1>4, <1>9, <2>2, <2>3
<1>12. ASSUME NEW i \in 1..M - 1, t[i].state # "free" PROVE BlockAt(n, i) = BlockAt(m, f[i])
  <2>1. t[i] = u[f[i]] /\ u[f[i]].state # "free" /\ f[i] + 1 \in 1..L
    BY <1>1, <1>4, <1>9, <1>12
  <2>2. f[i] + 1 \in keep
    <3>1. f[i] + 1 \notin keep => u[(f[i] + 1) - 1].state = "free"
      BY <1>5, <2>1
    <3>2. (f[i] + 1) - 1 = f[i]
      BY <1>9
    <3> QED BY <2>1, <3>1, <3>2
  <2>3. t[i + 1] = u[f[i] + 1]
    <3>1. t[i + 1] = u[f[i + 1]] /\ f[i + 1] = f[i] + 1
      BY <1>4, <1>9, <2>2
    <3> QED BY <3>1
  <2> QED BY <1>6, <2>1, <2>3
<1>13. LiveIn(n) \subseteq LiveIn(m)
  <2> SUFFICES ASSUME NEW i \in 1..M - 1, IsLive(t[i]) PROVE BlockAt(n, i) \in LiveIn(m)
    BY <1>6 DEF LiveIn, t
  <2>1. BlockAt(n, i) = BlockAt(m, f[i])
    BY <1>12 DEF IsLive
  <2>2. t[i] = u[f[i]] /\ f[i] \in 1..L - 1
    BY <1>4, <1>9
  <2> QED BY <1>6, <2>1, <2>2 DEF LiveIn, u
<1>14. LiveIn(m) \subseteq LiveIn(n)
  <2> SUFFICES ASSUME NEW k \in 1..L - 1, IsLive(u[k]) PROVE BlockAt(m, k) \in LiveIn(n)
    BY <1>6 DEF LiveIn, u
  <2>1. u[k].state # "free" /\ k \in 1..L
    BY <1>1 DEF IsLive
  <2>2. k \in keep
    BY <1>5, <2>1
  <2>3. PICK i \in 1..M : f[i] = k
    BY <1>4, <2>1, <2>2
  <2>4. i \in 1..M - 1
    BY <1>1, <1>3, <1>8, <2>3
  <2>5. t[i] = u[k]
    BY <1>4, <2>3
  <2>6. BlockAt(n, i) = BlockAt(m, k)
    BY <1>12, <2>1, <2>3, <2>4, <2>5
  <2> QED BY <1>6, <2>4, <2>5, <2>6 DEF LiveIn, t
<1>15. Covers(m, n)
  <2> SUFFICES ASSUME NEW r \in Piece, NEW i \in 1..M - 1, t[i].state = "free", Overlap(r, BlockAt(n, i))
               PROVE  \E k \in 1..L - 1 : u[k].state = "free" /\ Overlap(r, BlockAt(m, k))
    <3>1. \A c \in FreeIn(n) : \E i \in 1..M - 1 : t[i].state = "free" /\ c = BlockAt(n, i)
      BY <1>6 DEF FreeIn, t
    <3>2. \A k \in 1..L - 1 : u[k].state = "free" => BlockAt(m, k) \in FreeIn(m)
      BY <1>6 DEF FreeIn, u
    <3> QED BY <3>1, <3>2 DEF Covers
  <2> DEFINE a == t[i].start
             z == t[i + 1].start
             p == IF a <= r.start THEN r.start ELSE a
  <2>1. r.start \in Nat /\ r.size \in Nat \ {0}
    BY DEF Piece
  <2>2. /\ t[i] = u[f[i]] /\ t[i + 1] = u[f[i + 1]] /\ f[i] \in 1..L /\ f[i + 1] \in 1..L
        /\ a \in Nat /\ z \in Nat /\ a < z
    <3>1. i \in 1..M /\ i + 1 \in 1..M /\ f[i] < f[i + 1]
      BY <1>9
    <3>2. t[i] = u[f[i]] /\ t[i + 1] = u[f[i + 1]] /\ f[i] \in 1..L /\ f[i + 1] \in 1..L
      BY <1>4, <3>1
    <3>3. u[f[i]].start \in Nat /\ u[f[i + 1]].start \in Nat /\ u[f[i]].start < u[f[i + 1]].start
      BY <1>1, <3>1, <3>2
    <3> QED BY <3>2, <3>3
  <2>3. a < r.start + r.size /\ r.start < z
    <3>1. BlockAt(n, i).start = a /\ BlockAt(n, i).size = z - a
      BY <1>6
    <3>2. r.start < a + (z - a) /\ a < r.start + r.size
      BY <3>1 DEF Overlap
    <3> HIDE DEF a, z
    <3> QED BY <2>1, <2>2, <3>2
  <2>4. p \in Nat /\ a <= p /\ p < z /\ r.start <= p /\ p < r.start + r.size
    BY <2>1, <2>2, <2>3
  <2> HIDE DEF p, a, z
  <2>5. u[1].start <= p /\ p < to
    <3>1. u[1].start = from /\ from <= a /\ z <= to /\ to \in Nat
      <4>1. \A k \in 1..L : from <= u[k].start /\ u[k].start <= to
        BY <1>1 DEF Table, L
      <4> QED BY <1>1, <2>2, <4>1 DEF a, z, Table
    <3> QED BY <2>2, <2>4, <3>1
  <2>6. PICK k \in 1..L - 1 : u[k].start <= p /\ p < u[k + 1].start
    BY <1>1, <2>4, <2>5, Located DEF L
  <2>7. k \in 1..L /\ k + 1 \in 1..L /\ u[k].start \in Nat /\ u[k + 1].start \in Nat
    BY <1>1
  <2>8. f[i] <= k
    <3>1. ~(k + 1 <= f[i])
      <4>1. k + 1 < f[i] => u[k + 1].start < u[f[i]].start
        BY <1>1, <2>2, <2>7
      <4>2. k + 1 = f[i] => u[k + 1].start = u[f[i]].start
        OBVIOUS
      <4> QED BY <2>2, <2>4, <2>6, <2>7, <4>1, <4>2 DEF a
    <3> QED BY <2>2, <2>7, <3>1
  <2>9. k < f[i + 1]
    <3>1. f[i + 1] < k => u[f[i + 1]].start < u[k].start
      BY <1>1, <2>2, <2>7
    <3>2. f[i + 1] = k => u[f[i + 1]].start = u[k].start
      OBVIOUS
    <3>3. z = u[f[i + 1]].start
      BY <2>2 DEF z
    <3> QED BY <2>2, <2>4, <2>6, <2>7, <3>1, <3>2, <3>3, SMTT(20)
  <2>10. u[k].state = "free"
    <3>1. CASE k = f[i]
      BY <2>2, <3>1
    <3>2. CASE k # f[i]
      <4>1. k \notin keep
        BY <1>9, <2>2, <2>7, <2>8, <2>9, <3>2
      <4> QED BY <1>5, <2>7, <4>1
    <3> QED BY <3>1, <3>2
  <2>11. Overlap(r, BlockAt(m, k))
    <3>1. BlockAt(m, k).start = u[k].start /\ BlockAt(m, k).size = u[k + 1].start - u[k].start
      BY <1>6
    <3>2. u[k].start < r.start + r.size /\ r.start < u[k].start + (u[k + 1].start - u[k].start)
      BY <2>1, <2>4, <2>6, <2>7, SMTT(20)
    <3> QED BY <3>1, <3>2 DEF Overlap
  <2> QED BY <2>10, <2>11
<1>16. Cut(t, from, to)
  BY <1>10, <1>11, CutLoose DEF M
<1> QED BY <1>13, <1>14, <1>15, <1>16 DEF t

-----------------------------------------------------------------------------
(* A free at once; the clearing of what was freed. *)

\* The marks of a unit are no names.
LEMMA NamesFacts == "free" \notin Names /\ "void" \notin Names /\ "used" \notin Names /\ "divide" \notin Names
BY FrameAssumption DEF Names

\* A free at once joins the block with what is free around it.
THEOREM FreeMemory ==
  ASSUME NEW m \in Heap, NEW from \in Nat, NEW to, Cut(m.units, from, to), NEW b \in LiveIn(m)
  PROVE  LET n == GV_FreeMemory(m, b.start) IN
         /\ n \in Heap /\ n.dynamic = m.dynamic /\ Cut(n.units, from, to)
         /\ LiveIn(n) = LiveIn(m) \ {b}
         /\ \A r \in Piece : \A c \in FreeIn(n) : Overlap(r, c) => Overlap(r, b) \/ \E d \in FreeIn(m) : Overlap(r, d)
<1>1. Loose(m.units, from, to) /\ \A k \in 1..Len(m.units) - 1 : m.units[k].state = "free" => m.units[k + 1].state # "free"
  BY CutLoose
<1>2. PICK i \in 1..InUse(m) : b = BlockAt(m, i) /\ IsLive(m.units[i])
  BY DEF LiveIn
<1>3. GV_FindAllocation(m, b.start) = i /\ i # 0
  <2>1. GV_FindAllocation(m, m.units[i].start) = i
    BY <1>1, FindAllocation
  <2>2. b.start = m.units[i].start
    BY <1>2 DEF BlockAt
  <2>3. i # 0
    BY <1>1, BlockFacts
  <2> QED BY <2>1, <2>2, <2>3
<1> DEFINE n == GV_FreeMemory(m, b.start)
           u == Restate(m.units, i, "free")
           joined == {k \in {i, i + 1} : k > 1 /\ u[k].state = "free" /\ u[k - 1].state = "free"}
           keep == DOMAIN u \ joined
           a == [m EXCEPT !.units = u]
<1>4. n = [m EXCEPT !.units = Pick(u, keep)]
  BY <1>3 DEF GV_FreeMemory, Restate
<1>5. a.units = u /\ n.units = Pick(a.units, keep) /\ n.dynamic = m.dynamic /\ n.voided = m.voided /\ n.failed = m.failed
  BY <1>4 DEF Heap
<1>6. n = [dynamic |-> n.dynamic, voided |-> n.voided, failed |-> n.failed, units |-> n.units]
  BY <1>4 DEF Heap
<1> HIDE DEF n, a
<1>7. Loose(u, from, to) /\ Changed(m, a, i, "free")
  <2>1. "free" \in {"free", "void"} \cup Names /\ a.units = Restate(m.units, i, "free")
    BY <1>5
  <2>2. Loose(a.units, from, to) /\ Changed(m, a, i, "free")
    BY <1>1, <2>1, Restated
  <2> QED BY <1>5, <2>2
<1> DEFINE L == Len(u)
<1>8. /\ L = Len(m.units) /\ L \in Nat /\ L >= 2 /\ DOMAIN u = 1..L /\ InUse(m) = L - 1 /\ InUse(a) = L - 1
      /\ i \in 1..L /\ i + 1 \in 1..L /\ i \in Nat
      /\ \A k \in 1..L : u[k].start = m.units[k].start /\ u[k].state = IF k = i THEN "free" ELSE m.units[k].state
      /\ u[L].state = "used"
  <2>1. Table(u, from, to)
    BY <1>7, TableFacts
  <2>2. i \in 1..Len(m.units) /\ i + 1 \in 1..Len(m.units) /\ InUse(m) = Len(m.units) - 1
    BY <1>1, BlockFacts
  <2> QED BY <1>5, <1>7, <2>1, <2>2 DEF Changed, Table
<1> HIDE DEF L
<1>9. Joins(u, keep)
  <2>1. 1 \in keep /\ L \in keep
    BY <1>8
  <2>2. ASSUME NEW k \in 1..L, k \notin keep PROVE k > 1 /\ u[k].state = "free" /\ u[k - 1].state = "free"
    BY <1>8, <2>2
  <2>3. ASSUME NEW k \in 1..L, k \in keep, k > 1, u[k].state = "free" PROVE u[k - 1].state # "free"
    <3>1. CASE k \in {i, i + 1}
      BY <1>8, <2>3, <3>1
    <3>2. CASE k \notin {i, i + 1}
      <4>1. k - 1 \in 1..L /\ k - 1 # i /\ k - 1 \in 1..Len(m.units) - 1 /\ (k - 1) + 1 = k /\ k # i
        BY <1>8, <2>3, <3>2
      <4>2. m.units[k].state = "free"
        BY <1>8, <2>3, <4>1
      <4>3. m.units[k - 1].state = "free" => m.units[(k - 1) + 1].state # "free"
        BY <1>1, <4>1
      <4> QED BY <1>8, <4>1, <4>2, <4>3
    <3> QED BY <3>1, <3>2
  <2> HIDE DEF keep
  <2> QED BY <2>1, <2>2, <2>3 DEF Joins, L
<1> HIDE DEF keep, u
<1>10. Cut(n.units, from, to) /\ LiveIn(n) = LiveIn(a) /\ Covers(a, n)
  BY <1>5, <1>7, <1>9, Joined
<1>11. \A k \in 1..InUse(m) : k \in 1..L /\ k + 1 \in 1..L
  BY <1>8
<1>12. LiveIn(a) = LiveIn(m) \ {b}
  <2>1. \A k \in 1..InUse(m) : IsLive(a.units[k]) <=> IsLive(m.units[k]) /\ k # i
    BY <1>5, <1>8, <1>11 DEF IsLive
  <2>2. ASSUME NEW k \in 1..InUse(m), k # i PROVE BlockAt(m, k) # b
    <3>1. m.units[k].start # m.units[i].start
      <4>1. (k < i \/ i < k) /\ k \in 1..Len(m.units) /\ i \in 1..Len(m.units)
        BY <1>8, <1>11, <2>2
      <4>2. m.units[k].start \in Nat /\ m.units[i].start \in Nat
        BY <1>1, TableFacts, <4>1 DEF Table
      <4> QED BY <1>1, <4>1, <4>2 DEF Loose, Sorted
    <3> QED BY <1>2, <3>1 DEF BlockAt
  <2>3. \A k \in 1..InUse(m) : k # i => BlockAt(a, k) = BlockAt(m, k)
    BY <1>7 DEF Changed
  <2>4. InUse(a) = InUse(m)
    BY <1>7 DEF Changed
  <2> QED BY <1>2, <2>1, <2>2, <2>3, <2>4 DEF LiveIn
<1>13. ASSUME NEW c \in FreeIn(a) PROVE (c.start = b.start /\ c.size = b.size) \/ c \in FreeIn(m)
  <2>1. PICK k \in 1..InUse(a) : c = BlockAt(a, k) /\ a.units[k].state = "free"
    BY DEF FreeIn
  <2>2. k \in 1..InUse(m)
    BY <1>8, <2>1
  <2>3. CASE k = i
    BY <1>2, <1>7, <2>1, <2>3 DEF Changed
  <2>4. CASE k # i
    <3>1. m.units[k].state = "free" /\ c = BlockAt(m, k)
      BY <1>7, <1>8, <1>11, <2>1, <2>2, <2>4 DEF Changed
    <3> QED BY <2>2, <3>1 DEF FreeIn
  <2> QED BY <2>3, <2>4
<1>14. \A r \in Piece : \A c \in FreeIn(n) : Overlap(r, c) => Overlap(r, b) \/ \E d \in FreeIn(m) : Overlap(r, d)
  <2> TAKE r \in Piece
  <2> TAKE c \in FreeIn(n)
  <2> HAVE Overlap(r, c)
  <2>1. PICK d \in FreeIn(a) : Overlap(r, d)
    BY <1>10 DEF Covers
  <2> QED BY <1>13, <2>1 DEF Overlap
<1>15. n \in Heap
  <2>1. n.units \in Seq(Tag)
    BY <1>10 DEF Cut
  <2> QED BY <1>5, <1>6, <2>1 DEF Heap
<1> QED BY <1>5, <1>10, <1>12, <1>14, <1>15 DEF n

\* What was freed since the last clearing becomes free.
LEMMA ResetVoided ==
  ASSUME NEW m \in Heap, NEW from \in Nat, NEW to, Cut(m.units, from, to), NEW n, n.units = GV_ResetVoidedMemorySystem(m)
  PROVE  Cut(n.units, from, to) /\ LiveIn(n) = LiveIn(m)
<1> DEFINE u == [i \in DOMAIN m.units |-> IF IsLive(m.units[i]) THEN m.units[i] ELSE Unit(m.units[i].start, "free")]
           keep == {i \in DOMAIN u : i = 1 \/ IsLive(u[i]) \/ IsLive(u[i - 1])}
           a == [m EXCEPT !.units = u]
           L == Len(m.units)
<1>1. Loose(m.units, from, to)
  BY CutLoose
<1>2. Table(m.units, from, to)
  BY <1>1, TableFacts
<1>3. L \in Nat /\ L >= 2 /\ DOMAIN m.units = 1..L
  BY <1>2 DEF Table
<1>4. n.units = Pick(u, keep)
  BY DEF GV_ResetVoidedMemorySystem
<1>5. \A i \in 1..L : u[i] \in Tag /\ u[i].start = m.units[i].start /\ (IsLive(u[i]) <=> IsLive(m.units[i]))
                      /\ (u[i].state = "free" <=> ~IsLive(u[i])) /\ (IsLive(u[i]) => u[i] = m.units[i])
  <2> TAKE i \in 1..L
  <2>1. m.units[i] \in Tag /\ m.units[i].start \in Nat
    BY <1>2 DEF Table
  <2>2. CASE IsLive(m.units[i])
    BY <1>3, <2>1, <2>2 DEF IsLive
  <2>3. CASE ~IsLive(m.units[i])
    <3>1. u[i] = Unit(m.units[i].start, "free")
      BY <1>3, <2>3
    <3> QED BY <2>1, <2>3, <3>1 DEF IsLive, Unit, Tag
  <2> QED BY <2>2, <2>3
<1>6. DOMAIN u = 1..L /\ u \in [1..L -> Tag]
  BY <1>3, <1>5
<1>7. a.units = u
  BY DEF Heap
<1> HIDE DEF u, a
<1>8. u \in Seq(Tag) /\ Len(u) = L
  BY <1>3, <1>6, SeqOfLength
<1>9. m.units[L].state = "used" /\ IsLive(u[L]) /\ u[L] = m.units[L] /\ L \in 1..L
  <2>1. m.units[L].state = "used" /\ L \in 1..L
    BY <1>2, <1>3 DEF Table
  <2> QED BY <1>5, <2>1 DEF IsLive
<1>10. Loose(u, from, to)
  <2>1. u[1].start = from /\ u[L] = Unit(to, "used") /\ L \in 2..MaxUnits
    BY <1>1, <1>3, <1>5, <1>9 DEF Loose
  <2>2. \A i, j \in 1..L : i < j => u[i].start < u[j].start
    BY <1>1, <1>5 DEF Loose, Sorted
  <2>3. \A i \in 1..L - 1 : u[i].state \in {"free", "void"} \cup Names
    <3> TAKE i \in 1..L - 1
    <3>1. i \in 1..L /\ m.units[i].state \in {"free", "void"} \cup Names
      BY <1>2, <1>3 DEF Table
    <3> QED BY <1>5, <3>1
  <2> HIDE DEF L
  <2> QED BY <1>8, <2>1, <2>2, <2>3 DEF Loose, Sorted
<1>11. Joins(u, keep)
  <2>1. 1 \in keep /\ L \in keep
    BY <1>3, <1>6, <1>9
  <2>2. ASSUME NEW k \in 1..L, k \notin keep PROVE k > 1 /\ u[k].state = "free" /\ u[k - 1].state = "free"
    <3>1. k # 1 /\ ~IsLive(u[k]) /\ ~IsLive(u[k - 1])
      BY <1>6, <2>2
    <3>2. k - 1 \in 1..L /\ k > 1
      BY <1>3, <3>1
    <3> QED BY <1>5, <3>1, <3>2
  <2>3. ASSUME NEW k \in 1..L, k \in keep, k > 1, u[k].state = "free" PROVE u[k - 1].state # "free"
    <3>1. k - 1 \in 1..L /\ ~IsLive(u[k]) /\ k # 1
      BY <1>3, <1>5, <2>3
    <3>2. IsLive(u[k - 1])
      BY <2>3, <3>1
    <3> QED BY <1>5, <3>1, <3>2
  <2> HIDE DEF keep, L
  <2> QED BY <1>8, <2>1, <2>2, <2>3 DEF Joins
<1> HIDE DEF keep
<1>12. Cut(n.units, from, to) /\ LiveIn(n) = LiveIn(a)
  BY <1>4, <1>7, <1>10, <1>11, Joined
<1>13. LiveIn(a) = LiveIn(m)
  <2>1. InUse(a) = L - 1 /\ InUse(m) = L - 1
    BY <1>7, <1>8 DEF InUse
  <2>2. ASSUME NEW i \in 1..L - 1
        PROVE (IsLive(a.units[i]) <=> IsLive(m.units[i])) /\ (IsLive(m.units[i]) => BlockAt(a, i) = BlockAt(m, i))
    <3>1. i \in 1..L /\ i + 1 \in 1..L
      BY <1>3
    <3>2. SizeOf(a, i) = SizeOf(m, i)
      BY <1>5, <1>7, <3>1 DEF SizeOf
    <3> QED BY <1>5, <1>7, <3>1, <3>2 DEF BlockAt
  <2> HIDE DEF L
  <2> QED BY <2>1, <2>2 DEF LiveIn
<1> QED BY <1>12, <1>13

-----------------------------------------------------------------------------
(* Allocation. *)

Inside(b, c) == c.start <= b.start /\ b.start + b.size <= c.start + c.size

\* n is m with a new block of an owner, taken from what is free.
Given(m, n, piece) ==
  /\ LiveIn(n) = LiveIn(m) \cup {piece}
  /\ \E c \in FreeIn(m) : Inside(piece, c)
  /\ \A b \in FreeIn(n) : \E c \in FreeIn(m) : Inside(b, c)

\* The whole of a free unit is given.
LEMMA GivenWhole ==
  ASSUME NEW m, NEW from \in Nat, NEW to, Cut(m.units, from, to), NEW i \in 1..InUse(m), m.units[i].state = "free",
         NEW owner \in Names, NEW n, n.units = Restate(m.units, i, owner)
  PROVE  Cut(n.units, from, to) /\ Given(m, n, [start |-> m.units[i].start, size |-> SizeOf(m, i), by |-> owner])
<1>1. Loose(m.units, from, to) /\ \A k \in 1..Len(m.units) - 1 : m.units[k].state = "free" => m.units[k + 1].state # "free"
  BY CutLoose
<1>2. owner # "free" /\ owner # "void" /\ owner \in {"free", "void"} \cup Names
  BY NamesFacts
<1>3. Loose(n.units, from, to) /\ Changed(m, n, i, owner)
  BY <1>1, <1>2, Restated
<1> DEFINE L == Len(m.units)
<1>4. /\ L \in Nat /\ L >= 2 /\ InUse(m) = L - 1 /\ InUse(n) = L - 1 /\ Len(n.units) = L
      /\ \A k \in 1..L : n.units[k].start = m.units[k].start /\ n.units[k].state = IF k = i THEN owner ELSE m.units[k].state
      /\ i \in 1..L
  <2>1. Table(m.units, from, to)
    BY <1>1, TableFacts
  <2>2. i \in 1..L /\ InUse(m) = L - 1
    BY <1>1, BlockFacts
  <2> QED BY <1>3, <2>1, <2>2 DEF Table, Changed
<1>5. \A k \in 1..L - 1 : k # i => BlockAt(n, k) = BlockAt(m, k)
  BY <1>3, <1>4 DEF Changed
<1>6. BlockAt(n, i) = [start |-> m.units[i].start, size |-> SizeOf(m, i), by |-> owner]
  BY <1>3 DEF Changed, BlockAt
<1> HIDE DEF L
<1>7. Cut(n.units, from, to)
  <2>1. ASSUME NEW k \in 1..L - 1, n.units[k].state = "free" PROVE n.units[k + 1].state # "free"
    <3>1. k \in 1..L /\ k + 1 \in 1..L /\ k # i
      BY <1>2, <1>4, <2>1
    <3>2. m.units[k + 1].state # "free"
      BY <1>1, <1>4, <2>1, <3>1 DEF L
    <3> QED BY <1>2, <1>4, <3>1, <3>2
  <2> QED BY <1>3, <1>4, <2>1, CutLoose
<1>8. \A k \in 1..L - 1 : k \in 1..L
  BY <1>4
<1>9. LiveIn(n) = LiveIn(m) \cup {BlockAt(n, i)}
  <2>1. \A k \in 1..L - 1 : IsLive(n.units[k]) <=> IsLive(m.units[k]) \/ k = i
    BY <1>2, <1>4, <1>8 DEF IsLive
  <2>2. ~IsLive(m.units[i]) /\ i \in 1..L - 1
    BY <1>4 DEF IsLive
  <2> QED BY <1>4, <1>5, <2>1, <2>2 DEF LiveIn
<1>10. FreeIn(n) \subseteq FreeIn(m)
  <2>1. \A k \in 1..L - 1 : n.units[k].state = "free" => m.units[k].state = "free" /\ k # i
    BY <1>2, <1>4, <1>8
  <2> QED BY <1>4, <1>5, <2>1 DEF FreeIn
<1>11. \A b \in FreeIn(n) : b.start \in Nat /\ b.size \in Nat
  BY <1>3, HeapBlocks
<1>12. BlockAt(m, i) \in FreeIn(m) /\ BlockAt(m, i).start = BlockAt(n, i).start /\ BlockAt(m, i).size = BlockAt(n, i).size
  BY <1>6 DEF FreeIn, BlockAt
<1>13. BlockAt(m, i).start \in Nat /\ BlockAt(m, i).size \in Nat
  BY <1>1, BlockFacts
<1>14. Inside(BlockAt(n, i), BlockAt(m, i))
  BY <1>12, <1>13 DEF Inside
<1>15. \A b \in FreeIn(n) : Inside(b, b)
  BY <1>11 DEF Inside
<1> QED BY <1>6, <1>7, <1>9, <1>10, <1>12, <1>14, <1>15 DEF Given

\* The front of a free unit is given: the rest becomes a unit of its own.
LEMMA GivenPart ==
  ASSUME NEW m, NEW from \in Nat, NEW to, Cut(m.units, from, to), Len(m.units) < MaxUnits,
         NEW i \in 1..InUse(m), m.units[i].state = "free",
         NEW owner \in Names, NEW size \in Nat \ {0}, size < SizeOf(m, i),
         NEW n, n.units = InsertAt(Restate(m.units, i, owner), i + 1, Unit(m.units[i].start + size, "free"))
  PROVE  Cut(n.units, from, to) /\ Given(m, n, [start |-> m.units[i].start, size |-> size, by |-> owner])
<1> DEFINE a == [units |-> Restate(m.units, i, owner)]
           L == Len(m.units)
           u == a.units
           v == n.units
           s == m.units[i].start
           e == Unit(s + size, "free")
<1>1. Loose(m.units, from, to) /\ \A k \in 1..Len(m.units) - 1 : m.units[k].state = "free" => m.units[k + 1].state # "free"
  BY CutLoose
<1>2. owner # "free" /\ owner # "void" /\ owner \in {"free", "void"} \cup Names
  BY NamesFacts
<1>3. Loose(a.units, from, to) /\ Changed(m, a, i, owner)
  <2>1. a.units = Restate(m.units, i, owner)
    OBVIOUS
  <2> HIDE DEF a
  <2> QED BY <1>1, <1>2, <2>1, Restated
<1>4. v = InsertAt(u, i + 1, e)
  OBVIOUS
<1> HIDE DEF a
<1>5. /\ L \in Nat /\ L >= 2 /\ InUse(m) = L - 1 /\ Len(u) = L
      /\ \A k \in 1..L : u[k].start = m.units[k].start /\ u[k].state = IF k = i THEN owner ELSE m.units[k].state
      /\ \A k \in 1..L : u[k].start \in Nat /\ u[k] \in Tag
      /\ \A k \in 1..L - 1 : u[k].state \in {"free", "void"} \cup Names
      /\ i \in 1..L - 1 /\ s \in Nat
  <2>1. Table(m.units, from, to) /\ Table(a.units, from, to)
    BY <1>1, <1>3, TableFacts
  <2>2. i \in 1..L - 1 /\ InUse(m) = L - 1
    BY <1>1, BlockFacts
  <2>3. Len(u) = L /\ L \in Nat /\ L >= 2 /\ i \in 1..L
    BY <1>3, <2>1, <2>2 DEF Table, Changed
  <2> QED BY <1>3, <2>1, <2>2, <2>3 DEF Table, Changed
<1>6. u \in Seq(Tag) /\ e \in Tag /\ e.start = s + size /\ e.state = "free" /\ \A j, k \in 1..L : j < k => u[j].start < u[k].start
  <2>1. u \in Seq(Tag) /\ \A j, k \in 1..L : j < k => u[j].start < u[k].start
    BY <1>3, <1>5 DEF Loose, Sorted
  <2>2. e = [start |-> s + size, state |-> "free"] /\ s + size \in Nat
    BY <1>5, SMTT(20) DEF Unit
  <2> HIDE DEF e, s, u, L
  <2> QED BY <2>1, <2>2 DEF Tag
<1>7. s + size < u[i + 1].start /\ u[i].start = s /\ SizeOf(m, i) = u[i + 1].start - s
  <2>1. i \in 1..L /\ i + 1 \in 1..L
    BY <1>5
  <2>2. u[i + 1].start = m.units[i + 1].start /\ u[i].start = s
    BY <1>5, <2>1
  <2>3. SizeOf(m, i) = m.units[i + 1].start - s /\ m.units[i + 1].start \in Nat
    BY <1>5, <2>1, <2>2 DEF SizeOf
  <2>4. size < m.units[i + 1].start - s /\ size \in Nat
    BY <2>3
  <2>5. s \in Nat /\ m.units[i + 1].start \in Nat
    BY <1>5, <2>3
  <2> DEFINE x == m.units[i + 1].start
  <2> HIDE DEF s, u, x
  <2>6. s + size < x
    BY <2>4, <2>5 DEF x
  <2> QED BY <2>2, <2>3, <2>6 DEF x
<1>8. /\ v \in Seq(Tag) /\ Len(v) = L + 1
      /\ \A k \in 1..L + 1 : v[k] = IF k < i + 1 THEN u[k] ELSE IF k = i + 1 THEN e ELSE u[k - 1]
  <2> DEFINE j == i + 1
  <2>1. j \in 1..Len(u) + 1
    BY <1>5
  <2> HIDE DEF u, e, j, v
  <2>2. v = InsertAt(u, j, e)
    BY <1>4 DEF j
  <2>3. /\ InsertAt(u, j, e) \in Seq(Tag) /\ Len(InsertAt(u, j, e)) = Len(u) + 1
        /\ \A k \in 1..Len(u) + 1 :
             InsertAt(u, j, e)[k] = IF k < j THEN u[k] ELSE IF k = j THEN e ELSE u[k - 1]
    BY <1>6, <2>1, InsertAtElements
  <2> QED BY <1>5, <2>2, <2>3 DEF j
<1>9. InUse(n) = L
  BY <1>5, <1>8 DEF InUse
<1> HIDE DEF u, v, e, L, s
<1>10. /\ \A k \in 1..i : k \in 1..L /\ k \in 1..L + 1 /\ v[k] = u[k]
       /\ i + 1 \in 1..L + 1 /\ v[i + 1] = e
       /\ \A k \in i + 1..L : k \in 1..L /\ k + 1 \in 1..L + 1 /\ v[k + 1] = u[k]
       /\ \A k \in 1..L + 1 : k \in 1..i \/ k = i + 1 \/ (k - 1 \in i + 1..L /\ k = (k - 1) + 1)
  <2>1. ASSUME NEW k \in i + 1..L PROVE k \in 1..L /\ k + 1 \in 1..L + 1 /\ v[k + 1] = u[k]
    <3>1. k \in 1..L /\ k + 1 \in 1..L + 1 /\ ~(k + 1 < i + 1) /\ k + 1 # i + 1 /\ (k + 1) - 1 = k
      BY <1>5
    <3> QED BY <1>8, <3>1
  <2>2. ASSUME NEW k \in 1..i PROVE k \in 1..L /\ k \in 1..L + 1 /\ v[k] = u[k]
    <3>1. k \in 1..L + 1 /\ k < i + 1 /\ k \in 1..L
      BY <1>5
    <3> QED BY <1>8, <3>1
  <2>3. i + 1 \in 1..L + 1 /\ ~(i + 1 < i + 1)
    BY <1>5
  <2>4. v[i + 1] = e
    BY <1>8, <2>3
  <2>5. \A k \in 1..L + 1 : k \in 1..i \/ k = i + 1 \/ (k - 1 \in i + 1..L /\ k = (k - 1) + 1)
    BY <1>5
  <2> QED BY <2>1, <2>2, <2>3, <2>4, <2>5
<1>11. Loose(v, from, to)
  <2>1. L + 1 \in 2..MaxUnits
    <3>1. L < MaxUnits /\ MaxUnits \in Nat
      BY MaxUnitsAssumption DEF L
    <3> QED BY <1>5, <3>1
  <2>2. v[1].start = from /\ v[L + 1] = Unit(to, "used")
    <3>1. 1 \in 1..i /\ L \in i + 1..L
      BY <1>5
    <3>2. v[1] = u[1] /\ v[L + 1] = u[L]
      BY <1>10, <3>1
    <3>3. u[1].start = from /\ u[L] = Unit(to, "used")
      BY <1>3, <1>5 DEF Loose, u
    <3> QED BY <3>2, <3>3
  <2>3. ASSUME NEW j \in 1..L + 1, NEW k \in 1..L + 1, j < k PROVE v[j].start < v[k].start
    <3>1. CASE k \in 1..i
      <4>1. j \in 1..i
        BY <1>5, <2>3, <3>1
      <4> QED BY <1>6, <1>10, <2>3, <3>1, <4>1
    <3>2. CASE k = i + 1
      <4>1. j \in 1..i /\ i \in 1..L /\ (j < i \/ j = i)
        BY <1>5, <2>3, <3>2
      <4>2. j \in 1..L /\ v[j] = u[j] /\ u[j].start \in Nat
        BY <1>5, <1>10, <4>1
      <4>3. u[j].start < u[i].start \/ j = i
        BY <1>6, <4>1, <4>2
      <4>4. u[j].start <= s
        BY <1>5, <1>7, <4>2, <4>3
      <4> QED BY <1>5, <1>6, <1>10, <3>2, <4>2, <4>4
    <3>3. CASE k - 1 \in i + 1..L
      <4>1. v[k] = u[k - 1] /\ k - 1 \in 1..L
        BY <1>10, <3>3
      <4>2. CASE j \in 1..i
        <5>1. j < k - 1 /\ j \in 1..L
          BY <1>5, <3>3, <4>2
        <5> QED BY <1>6, <1>10, <4>1, <4>2, <5>1
      <4>3. CASE j = i + 1
        <5>1. (i + 1 = k - 1 \/ i + 1 < k - 1) /\ i + 1 \in 1..L
          BY <1>5, <3>3
        <5>2. u[i + 1].start = u[k - 1].start \/ u[i + 1].start < u[k - 1].start
          BY <1>6, <4>1, <5>1
        <5>3. u[i + 1].start \in Nat /\ u[k - 1].start \in Nat
          BY <1>5, <4>1, <5>1
        <5>4. e.start < u[k - 1].start
          BY <1>5, <1>6, <1>7, <5>2, <5>3, SMTT(20)
        <5> QED BY <1>10, <4>1, <4>3, <5>4
      <4>4. CASE j - 1 \in i + 1..L
        <5>1. v[j] = u[j - 1] /\ j - 1 \in 1..L /\ j - 1 < k - 1
          BY <1>10, <2>3, <4>4
        <5> QED BY <1>6, <4>1, <5>1
      <4> QED BY <1>10, <4>2, <4>3, <4>4
    <3> QED BY <1>10, <3>1, <3>2, <3>3
  <2>4. ASSUME NEW k \in 1..L PROVE v[k].state \in {"free", "void"} \cup Names
    <3>1. k \in 1..L + 1
      BY <1>5
    <3>2. CASE k \in 1..i
      <4>1. k \in 1..L - 1
        BY <1>5, <3>2
      <4> QED BY <1>5, <1>10, <3>2, <4>1
    <3>3. CASE k = i + 1
      BY <1>6, <1>10, <3>3
    <3>4. CASE k - 1 \in i + 1..L
      <4>1. k - 1 \in 1..L - 1 /\ v[k] = u[k - 1]
        BY <1>5, <1>10, <3>1, <3>4
      <4> QED BY <1>5, <4>1
    <3> QED BY <1>10, <3>1, <3>2, <3>3, <3>4
  <2>5. (L + 1) - 1 = L
    BY <1>5
  <2> QED BY <1>8, <2>1, <2>2, <2>3, <2>4, <2>5 DEF Loose, Sorted
<1>12. ASSUME NEW k \in 1..L, v[k].state = "free" PROVE v[k + 1].state # "free"
  <2>1. k \in 1..L + 1
    BY <1>5
  <2>2. CASE k \in 1..i
    <3>1. k # i
      BY <1>2, <1>5, <1>10, <1>12, <2>2
    <3>2. k + 1 \in 1..i /\ k \in 1..L - 1 /\ k + 1 \in 1..L
      BY <1>5, <2>2, <3>1
    <3>3. m.units[k].state = "free"
      BY <1>5, <1>10, <1>12, <2>2, <3>1, <3>2
    <3>4. m.units[k + 1].state # "free"
      BY <1>1, <3>2, <3>3 DEF L
    <3>5. u[k + 1].state # "free"
      BY <1>2, <1>5, <3>2, <3>4
    <3> QED BY <1>10, <3>2, <3>5
  <2>3. CASE k = i + 1
    <3>1. i + 1 \in i + 1..L /\ i + 1 \in 1..L /\ i + 1 # i
      BY <1>5
    <3>2. m.units[i + 1].state # "free"
      BY <1>1, <1>5 DEF L
    <3>3. u[i + 1].state # "free"
      BY <1>5, <3>1, <3>2
    <3>4. v[(i + 1) + 1] = u[i + 1]
      BY <1>10, <3>1
    <3> QED BY <2>3, <3>3, <3>4
  <2>4. CASE k - 1 \in i + 1..L
    <3>1. k - 1 \in 1..L - 1 /\ k \in i + 1..L /\ v[k] = u[k - 1] /\ k # i /\ k - 1 # i /\ (k - 1) + 1 = k /\ k - 1 \in 1..L
      BY <1>5, <1>10, <2>1, <2>4
    <3>2. m.units[k - 1].state = "free"
      BY <1>5, <1>12, <3>1
    <3>3. m.units[(k - 1) + 1].state # "free"
      BY <1>1, <3>1, <3>2 DEF L
    <3>4. v[k + 1] = u[k]
      BY <1>10, <3>1
    <3> QED BY <1>5, <3>1, <3>3, <3>4
  <2> QED BY <1>10, <2>1, <2>2, <2>3, <2>4
<1>13. Cut(v, from, to)
  <2>1. Len(v) - 1 = L
    BY <1>5, <1>8
  <2> QED BY <1>11, <1>12, <2>1, CutLoose
<1>14. /\ \A k : BlockAt(m, k) = [start |-> m.units[k].start, size |-> m.units[k + 1].start - m.units[k].start, by |-> m.units[k].state]
       /\ \A k : BlockAt(n, k) = [start |-> v[k].start, size |-> v[k + 1].start - v[k].start, by |-> v[k].state]
  BY DEF BlockAt, SizeOf, v
<1>15. ASSUME NEW k \in 1..i - 1
       PROVE k \in 1..L - 1 /\ BlockAt(n, k) = BlockAt(m, k) /\ v[k].state = m.units[k].state
  <2>1. k \in 1..i /\ k + 1 \in 1..i /\ k # i /\ k \in 1..L - 1
    BY <1>5
  <2>2. v[k] = u[k] /\ v[k + 1] = u[k + 1] /\ k \in 1..L /\ k + 1 \in 1..L
    BY <1>10, <2>1
  <2> QED BY <1>5, <1>14, <2>1, <2>2, ZenonT(40)
<1>16. ASSUME NEW k \in i + 1..L - 1
       PROVE k \in 1..L - 1 /\ BlockAt(n, k + 1) = BlockAt(m, k) /\ v[k + 1].state = m.units[k].state
  <2>1. k \in i + 1..L /\ k + 1 \in i + 1..L /\ k # i /\ k + 1 # i /\ k \in 1..L - 1
    BY <1>5
  <2>2. v[k + 1] = u[k] /\ v[(k + 1) + 1] = u[k + 1] /\ k \in 1..L /\ k + 1 \in 1..L
    BY <1>10, <2>1
  <2> QED BY <1>5, <1>14, <2>1, <2>2, ZenonT(40)
<1> DEFINE piece == [start |-> s, size |-> size, by |-> owner]
           rest == BlockAt(n, i + 1)
           c == BlockAt(m, i)
<1>17. BlockAt(n, i) = piece /\ v[i].state = owner
  <2>1. v[i] = u[i] /\ v[i + 1] = e /\ i \in 1..L
    BY <1>5, <1>10
  <2>2. v[i].start = s /\ v[i + 1].start = s + size /\ v[i].state = owner
    BY <1>5, <1>6, <1>7, <2>1
  <2>3. v[i + 1].start - v[i].start = size
    BY <1>5, <2>2
  <2> QED BY <1>14, <2>2, <2>3
<1>18. v[i + 1].state = "free" /\ rest.start = s + size /\ rest.start + rest.size = u[i + 1].start /\ rest.start \in Nat /\ rest.size \in Nat
  <2>1. v[i + 1] = e /\ v[(i + 1) + 1] = u[i + 1] /\ i + 1 \in 1..L
    BY <1>5, <1>10
  <2>2. u[i + 1].start \in Nat
    BY <1>5, <2>1
  <2>3. rest.start = e.start /\ rest.size = u[i + 1].start - e.start
    BY <1>14, <2>1
  <2> DEFINE x == u[i + 1].start
             y == s + size
  <2> HIDE DEF rest, x, y
  <2>4. x \in Nat /\ y \in Nat /\ y < x
    BY <1>5, <1>7, <2>2 DEF x, y
  <2>5. rest.start = y /\ rest.size = x - y
    BY <1>6, <2>3 DEF x, y
  <2>6. rest.start + rest.size = x /\ rest.start \in Nat /\ rest.size \in Nat
    BY <2>4, <2>5
  <2>7. v[i + 1].state = "free"
    BY <1>6, <2>1
  <2> QED BY <2>5, <2>6, <2>7 DEF x, y
<1>19. c \in FreeIn(m) /\ c.start = s /\ c.start + c.size = u[i + 1].start /\ c.size \in Nat
  <2>1. i \in 1..L /\ i + 1 \in 1..L
    BY <1>5
  <2>2. c.size = u[i + 1].start - s /\ c.start = s /\ u[i + 1].start \in Nat
    <3>1. u[i + 1].start = m.units[i + 1].start /\ u[i + 1].start \in Nat
      BY <1>5, <2>1
    <3>2. c.start = m.units[i].start /\ c.size = m.units[i + 1].start - m.units[i].start
      BY <1>14
    <3> HIDE DEF c
    <3> QED BY <3>1, <3>2 DEF s
  <2>3. c \in FreeIn(m)
    BY DEF FreeIn
  <2> QED BY <1>5, <1>7, <2>2, <2>3
<1>20. \A k \in 1..L : k \in 1..i - 1 \/ k = i \/ k = i + 1 \/ (k - 1 \in i + 1..L - 1 /\ k = (k - 1) + 1)
  BY <1>5
<1>21. \A k \in 1..L - 1 : k \in 1..i - 1 \/ k = i \/ k \in i + 1..L - 1
  BY <1>5
<1>22. LiveIn(n) = LiveIn(m) \cup {piece}
  <2>1. ASSUME NEW k \in 1..L, IsLive(v[k]) PROVE BlockAt(n, k) \in LiveIn(m) \cup {piece}
    <3>1. k # i + 1
      BY <1>18, <2>1 DEF IsLive
    <3>2. CASE k \in 1..i - 1
      <4>1. k \in 1..L - 1 /\ IsLive(m.units[k]) /\ BlockAt(n, k) = BlockAt(m, k)
        BY <1>15, <2>1, <3>2 DEF IsLive
      <4> QED BY <1>5, <4>1 DEF LiveIn
    <3>3. CASE k = i
      BY <1>17, <3>3
    <3>4. CASE k - 1 \in i + 1..L - 1 /\ k = (k - 1) + 1
      <4>1. k - 1 \in 1..L - 1 /\ IsLive(m.units[k - 1]) /\ BlockAt(n, k) = BlockAt(m, k - 1)
        BY <1>16, <2>1, <3>4 DEF IsLive
      <4> QED BY <1>5, <4>1 DEF LiveIn
    <3> QED BY <1>20, <3>1, <3>2, <3>3, <3>4
  <2>2. ASSUME NEW k \in 1..L - 1, IsLive(m.units[k])
        PROVE  \E j \in 1..L : IsLive(v[j]) /\ BlockAt(n, j) = BlockAt(m, k)
    <3>1. k # i
      BY <2>2 DEF IsLive
    <3>2. CASE k \in 1..i - 1
      <4>1. k \in 1..L /\ IsLive(v[k]) /\ BlockAt(n, k) = BlockAt(m, k)
        BY <1>5, <1>15, <2>2, <3>2 DEF IsLive
      <4> QED BY <4>1
    <3>3. CASE k \in i + 1..L - 1
      <4>1. k + 1 \in 1..L /\ IsLive(v[k + 1]) /\ BlockAt(n, k + 1) = BlockAt(m, k)
        BY <1>5, <1>16, <2>2, <3>3 DEF IsLive
      <4> QED BY <4>1
    <3> QED BY <1>21, <3>1, <3>2, <3>3
  <2>3. i \in 1..L /\ IsLive(v[i])
    BY <1>2, <1>5, <1>17 DEF IsLive
  <2>4. LiveIn(n) \subseteq LiveIn(m) \cup {piece}
    BY <1>9, <2>1 DEF LiveIn, v
  <2>5. LiveIn(m) \subseteq LiveIn(n)
    BY <1>5, <1>9, <2>2 DEF LiveIn, v
  <2>6. piece \in LiveIn(n)
    BY <1>9, <1>17, <2>3 DEF LiveIn, v
  <2> HIDE DEF piece
  <2> QED BY <2>4, <2>5, <2>6
<1>23. Inside(piece, c)
  <2>1. piece.start = s /\ piece.size = size
    OBVIOUS
  <2>2. u[i + 1].start \in Nat
    BY <1>5
  <2> HIDE DEF piece, c
  <2> QED BY <1>5, <1>7, <1>19, <2>1, <2>2 DEF Inside
<1>24. ASSUME NEW b \in FreeIn(n) PROVE \E d \in FreeIn(m) : Inside(b, d)
  <2>1. PICK k \in 1..L : b = BlockAt(n, k) /\ v[k].state = "free"
    BY <1>9 DEF FreeIn, v
  <2>2. k # i
    BY <1>2, <1>17, <2>1
  <2>3. CASE k = i + 1
    <3> HIDE DEF rest, c
    <3>1. b.start = s + size /\ b.start + b.size = u[i + 1].start
      BY <1>18, <2>1, <2>3 DEF rest
    <3>2. Inside(b, c)
      BY <1>5, <1>18, <1>19, <3>1 DEF Inside
    <3> QED BY <1>19, <3>2
  <2>4. b.start \in Nat /\ b.size \in Nat
    <3>1. Loose(n.units, from, to)
      BY <1>11 DEF v
    <3> QED BY <3>1, HeapBlocks
  <2>5. Inside(b, b)
    BY <2>4 DEF Inside
  <2>6. CASE k \in 1..i - 1
    <3>1. k \in 1..L - 1 /\ m.units[k].state = "free" /\ b = BlockAt(m, k)
      BY <1>15, <2>1, <2>6
    <3>2. b \in FreeIn(m)
      BY <1>5, <3>1 DEF FreeIn
    <3> QED BY <2>5, <3>2
  <2>7. CASE k - 1 \in i + 1..L - 1 /\ k = (k - 1) + 1
    <3>1. k - 1 \in 1..L - 1 /\ m.units[k - 1].state = "free" /\ b = BlockAt(m, k - 1)
      BY <1>16, <2>1, <2>7
    <3>2. b \in FreeIn(m)
      BY <1>5, <3>1 DEF FreeIn
    <3> QED BY <2>5, <3>2
  <2> QED BY <1>20, <2>2, <2>3, <2>6, <2>7
<1> HIDE DEF c
<1>25. Given(m, n, piece)
  BY <1>19, <1>22, <1>23, <1>24 DEF Given
<1> QED BY <1>13, <1>25 DEF v, s

\* GV_AllocMemory2 gives the owner a block of the size asked, out of what was free, or nothing;
\* the blocks of the others stay where they are.
THEOREM AllocMemory2 ==
  ASSUME NEW m \in Heap, NEW from \in Nat \ {0}, NEW to, Cut(m.units, from, to),
         NEW size \in Nat \ {0}, NEW owner \in Names
  PROVE  LET made == GV_AllocMemory2(m, size, owner) IN
         /\ made.heap \in Heap /\ made.heap.dynamic = m.dynamic /\ Cut(made.heap.units, from, to) /\ made.start \in Nat
         /\ made.start = Null => LiveIn(made.heap) = LiveIn(m) /\ FreeIn(made.heap) = FreeIn(m)
         /\ made.start # Null => Given(m, made.heap, [start |-> made.start, size |-> size, by |-> owner])
<1> DEFINE made == GV_AllocMemory2(m, size, owner)
           n == made.heap
           i == GV_FindFreeMemory(m, size)
           T == {k \in 1..InUse(m) : m.units[k].state = "free" /\ SizeOf(m, k) >= size}
           taken == Restate(m.units, i, owner)
           split == InsertAt(taken, i + 1, Unit(m.units[i].start + size, "free"))
<1>1. Loose(m.units, from, to) /\ Table(m.units, from, to) /\ from \in Nat
  BY CutLoose, TableFacts
<1>2. Null \in Nat /\ Null = 0
  BY DEF Null
<1>3. CASE InUse(m) >= MaxUnits - 1
  <2>1. made = [heap |-> m, start |-> Null]
    BY <1>3 DEF GV_AllocMemory2
  <2> QED BY <1>2, <2>1
<1>4. CASE ~(InUse(m) >= MaxUnits - 1) /\ i = 0
  <2>1. made = [heap |-> [m EXCEPT !.failed = TRUE], start |-> Null]
    BY <1>4 DEF GV_AllocMemory2
  <2> HIDE DEF made
  <2>2. n \in Heap /\ n.units = m.units /\ n.dynamic = m.dynamic /\ made.start = Null
    <3>1. n = [m EXCEPT !.failed = TRUE] /\ made.start = Null
      BY <2>1
    <3> HIDE DEF n
    <3> QED BY <3>1 DEF Heap
  <2>3. LiveIn(n) = LiveIn(m) /\ FreeIn(n) = FreeIn(m)
    BY <2>2, SameBlocks
  <2>4. Cut(n.units, from, to)
    BY <2>2
  <2> QED BY <1>2, <2>2, <2>3, <2>4 DEF made
<1>5. CASE ~(InUse(m) >= MaxUnits - 1) /\ i # 0
  <2>1. i \in T
    <3>1. i = Lowest(T)
      BY DEF GV_FindFreeMemory
    <3>2. T # {}
      BY <1>5, <3>1 DEF Lowest
    <3>3. T \subseteq Nat
      BY <1>1 DEF Table, InUse
    <3> HIDE DEF T, i
    <3> QED BY <3>1, <3>2, <3>3, LowestFacts
  <2>2. i \in 1..InUse(m) /\ m.units[i].state = "free" /\ SizeOf(m, i) >= size
    BY <2>1
  <2>3. m.units[i].start \in Nat /\ from <= m.units[i].start /\ SizeOf(m, i) \in Nat
    <3> HIDE DEF i
    <3>1. BlockAt(m, i).start = m.units[i].start /\ BlockAt(m, i).size = SizeOf(m, i)
      BY DEF BlockAt
    <3>2. BlockAt(m, i).start \in Nat /\ BlockAt(m, i).size \in Nat /\ from <= BlockAt(m, i).start
      BY <1>1, <2>2, BlockFacts
    <3> QED BY <3>1, <3>2
  <2>4. made = [heap |-> [m EXCEPT !.units = IF SizeOf(m, i) > size THEN split ELSE taken], start |-> m.units[i].start]
    BY <1>5 DEF GV_AllocMemory2, Restate
  <2>5. /\ n.units = IF SizeOf(m, i) > size THEN split ELSE taken
        /\ n.dynamic = m.dynamic /\ made.start = m.units[i].start /\ made.start \in Nat /\ made.start # Null
        /\ n.failed = m.failed /\ n.voided = m.voided
        /\ n = [dynamic |-> n.dynamic, voided |-> n.voided, failed |-> n.failed, units |-> n.units]
    BY <1>2, <2>3, <2>4 DEF Heap
  <2> HIDE DEF made, i
  <2> DEFINE piece == [start |-> m.units[i].start, size |-> size, by |-> owner]
  <2>6. Cut(n.units, from, to) /\ Given(m, n, piece)
    <3>1. CASE SizeOf(m, i) > size
      <4>1. Len(m.units) < MaxUnits
        BY <1>1, <1>5, MaxUnitsAssumption DEF InUse, Table
      <4>2. size < SizeOf(m, i) /\ n.units = split
        BY <2>3, <2>5, <3>1
      <4> QED BY <1>1, <2>2, <4>1, <4>2, GivenPart
    <3>2. CASE ~(SizeOf(m, i) > size)
      <4>1. SizeOf(m, i) = size /\ n.units = taken
        BY <2>2, <2>3, <2>5, <3>2
      <4>2. Cut(n.units, from, to) /\ Given(m, n, [start |-> m.units[i].start, size |-> SizeOf(m, i), by |-> owner])
        BY <1>1, <2>2, <4>1, GivenWhole
      <4> QED BY <4>1, <4>2
    <3> QED BY <3>1, <3>2
  <2>7. n \in Heap
    <3>1. n.units \in Seq(Tag)
      BY <2>6 DEF Cut
    <3> QED BY <2>5, <3>1 DEF Heap
  <2>8. piece = [start |-> made.start, size |-> size, by |-> owner]
    BY <2>5
  <2> QED BY <2>5, <2>6, <2>7, <2>8 DEF made
<1> QED BY <1>3, <1>4, <1>5

\* Where the pointer of an owner points to, if the owner has one block at most.
LEMMA PointerFacts ==
  ASSUME NEW n, NEW from \in Nat, NEW to, Cut(n.units, from, to), NEW o \in Names, NEW x
  PROVE  /\ {b \in LiveIn(n) : b.by = o} = {} => Pointer(n, o, x) = x
         /\ \A c : {b \in LiveIn(n) : b.by = o} = {c} => Pointer(n, o, x) = c.start
<1> DEFINE T == {k \in DOMAIN n.units : n.units[k].state = o}
           u == n.units
<1>1. Loose(u, from, to) /\ Table(u, from, to)
  BY CutLoose, TableFacts
<1>2. Len(u) \in Nat /\ DOMAIN u = 1..Len(u) /\ u[Len(u)].state = "used" /\ InUse(n) = Len(u) - 1
  BY <1>1 DEF Table, InUse
<1>3. o # "used" /\ o # "free" /\ o # "void"
  BY NamesFacts
<1>4. ASSUME NEW k \in T PROVE k \in 1..InUse(n) /\ BlockAt(n, k) \in LiveIn(n) /\ BlockAt(n, k).by = o
  <2>1. k \in 1..Len(u) /\ u[k].state = o /\ k # Len(u)
    BY <1>2, <1>3
  <2>2. k \in 1..InUse(n)
    BY <1>2, <2>1
  <2>3. IsLive(u[k])
    BY <1>3, <2>1 DEF IsLive
  <2> QED BY <2>1, <2>2, <2>3 DEF LiveIn, BlockAt
<1>5. ASSUME NEW b \in LiveIn(n), b.by = o PROVE \E k \in T : b = BlockAt(n, k)
  <2>1. PICK k \in 1..InUse(n) : b = BlockAt(n, k)
    BY DEF LiveIn
  <2>2. k \in DOMAIN u /\ u[k].state = o
    BY <1>2, <1>5, <2>1 DEF BlockAt
  <2> QED BY <2>1, <2>2
<1>6. T \subseteq Nat
  BY <1>2
<1>7. Pointer(n, o, x) = IF Lowest(T) = 0 THEN x ELSE n.units[Lowest(T)].start
  BY DEF Pointer
<1> HIDE DEF T
<1>8. ASSUME {b \in LiveIn(n) : b.by = o} = {} PROVE Pointer(n, o, x) = x
  <2>1. T = {}
    BY <1>4, <1>8
  <2> QED BY <1>7, <2>1 DEF Lowest
<1>9. ASSUME NEW c, {b \in LiveIn(n) : b.by = o} = {c} PROVE Pointer(n, o, x) = c.start
  <2>1. T # {}
    BY <1>5, <1>9
  <2>2. Lowest(T) \in T
    BY <1>6, <2>1, LowestFacts
  <2>3. BlockAt(n, Lowest(T)) = c /\ Lowest(T) # 0
    BY <1>2, <1>4, <1>9, <2>2
  <2> QED BY <1>7, <2>3 DEF BlockAt
<1> QED BY <1>8, <1>9

-----------------------------------------------------------------------------
(* The compaction. *)

\* w is the live ones of the first n units of u, moved together: unit i of w is unit f[i] of u, and
\* goes from st[i] to st[i + 1].
Shifted(u, n, w, L, f, st) ==
  /\ st[1] = u[1].start /\ st[L + 1] = w.addr
  /\ \A i, j \in 1..L + 1 : i < j => st[i] < st[j]
  /\ \A i \in 1..L :
       /\ w.units[i] = Unit(st[i], u[f[i]].state) /\ IsLive(u[f[i]])
       /\ st[i + 1] - st[i] = u[f[i] + 1].start - u[f[i]].start
  /\ \A i, j \in 1..L : i < j => f[i] < f[j]
  /\ \A k \in 1..n : IsLive(u[k]) => \E i \in 1..L : f[i] = k
Shifts(u, n, w, L) == \E f \in [1..L -> 1..n], st \in [1..L + 1 -> Nat] : Shifted(u, n, w, L, f, st)
Packed(u, n, w) ==
  /\ w.units \in Seq(Tag) /\ Len(w.units) <= n /\ w.addr \in Nat
  /\ w.addr <= u[n + 1].start /\ (Len(w.units) = n => w.addr = u[n + 1].start)
  /\ Shifts(u, n, w, Len(w.units))

\* The compaction of no unit, ...
LEMMA PackedNone == ASSUME NEW u, u[1].start \in Nat PROVE Packed(u, 0, [units |-> << >>, addr |-> u[1].start])
<1> DEFINE w == [units |-> << >>, addr |-> u[1].start]
           f == [i \in 1..0 |-> 1]
           st == [i \in 1..1 |-> u[1].start]
<1>1. /\ w.units \in Seq(Tag) /\ Len(w.units) = 0 /\ w.addr \in Nat /\ w.addr = u[1].start
      /\ \A i \in 1..Len(w.units) : FALSE
      /\ Len(w.units) + 1 = 1
  OBVIOUS
<1>2. /\ f \in [1..0 -> 1..0] /\ st \in [1..1 -> Nat] /\ st[1] = u[1].start
      /\ \A i, j \in 1..1 : ~(i < j)
      /\ \A k \in 1..0 : FALSE
  OBVIOUS
<1> HIDE DEF w, f, st
<1>3. /\ f \in [1..Len(w.units) -> 1..0] /\ st \in [1..Len(w.units) + 1 -> Nat]
      /\ st[Len(w.units) + 1] = w.addr
      /\ \A i, j \in 1..Len(w.units) + 1 : i < j => st[i] < st[j]
      /\ \A i, j \in 1..Len(w.units) : i < j => f[i] < f[j]
  BY <1>1, <1>2
<1>4. Len(w.units) <= 0 /\ w.addr <= u[0 + 1].start /\ w.addr = u[0 + 1].start
  BY <1>1
<1>5. Packed(u, 0, w)
  BY <1>1, <1>2, <1>3, <1>4 DEF Packed, Shifts, Shifted
<1> QED BY <1>5 DEF w

\* ... of one that has an owner, ...
LEMMA PackedMore ==
  ASSUME NEW u, NEW n \in Nat \ {0}, NEW w, Packed(u, n - 1, w), IsLive(u[n]),
         u[n].start \in Nat, u[n + 1].start \in Nat, u[n].start < u[n + 1].start, u[n] \in Tag,
         NEW x, x.units = Append(w.units, Unit(w.addr, u[n].state)),
         x.addr = w.addr + (u[n + 1].start - u[n].start)
  PROVE  Packed(u, n, x)
<1> DEFINE L == Len(w.units)
           d == u[n + 1].start - u[n].start
           e == Unit(w.addr, u[n].state)
<1>1. /\ w.units \in Seq(Tag) /\ L \in Nat /\ L <= n - 1 /\ w.addr \in Nat /\ w.addr <= u[n].start
      /\ L = n - 1 => w.addr = u[n].start
  <2>1. (n - 1) + 1 = n
    OBVIOUS
  <2> QED BY <2>1, LenProperties DEF Packed
<1>2. PICK f \in [1..L -> 1..n - 1], st \in [1..L + 1 -> Nat] :
       /\ st[1] = u[1].start /\ st[L + 1] = w.addr
       /\ \A i, j \in 1..L + 1 : i < j => st[i] < st[j]
       /\ \A i \in 1..L :
            /\ w.units[i] = Unit(st[i], u[f[i]].state) /\ IsLive(u[f[i]])
            /\ st[i + 1] - st[i] = u[f[i] + 1].start - u[f[i]].start
       /\ \A i, j \in 1..L : i < j => f[i] < f[j]
       /\ \A k \in 1..n - 1 : IsLive(u[k]) => \E i \in 1..L : f[i] = k
  BY DEF Packed, Shifts, Shifted
<1>3. d \in Nat \ {0} /\ x.addr = w.addr + d /\ x.addr \in Nat /\ w.addr < x.addr /\ x.addr <= u[n + 1].start
      /\ (L + 1 = n => x.addr = u[n + 1].start)
  <2> DEFINE p == u[n].start
             q == u[n + 1].start
             a == w.addr
  <2>1. p \in Nat /\ q \in Nat /\ p < q /\ a \in Nat /\ a <= p /\ d = q - p /\ x.addr = a + (q - p)
    BY <1>1
  <2>2. L + 1 = n => a = p
    BY <1>1
  <2> HIDE DEF p, q, a, d, L
  <2>3. d \in Nat \ {0} /\ x.addr = a + d /\ x.addr \in Nat /\ a < x.addr /\ x.addr <= q
    BY <2>1
  <2>4. L + 1 = n => x.addr = q
    BY <2>1, <2>2
  <2> QED BY <2>3, <2>4 DEF a, q
<1>4. e \in Tag
  BY <1>1 DEF Tag, Unit
<1>5. /\ x.units \in Seq(Tag) /\ Len(x.units) = L + 1 /\ \A i \in 1..L : x.units[i] = w.units[i]
      /\ x.units[L + 1] = e
  BY <1>1, <1>4, AppendProperties
<1> DEFINE g == [i \in 1..L + 1 |-> IF i = L + 1 THEN n ELSE f[i]]
           s == [i \in 1..(L + 1) + 1 |-> IF i = (L + 1) + 1 THEN x.addr ELSE st[i]]
<1> HIDE DEF L, e, d
<1>6. /\ g \in [1..L + 1 -> 1..n] /\ g[L + 1] = n
      /\ \A i \in 1..L : g[i] = f[i] /\ i \in 1..L + 1
      /\ \A i \in 1..L + 1 : i = L + 1 \/ i \in 1..L
  BY <1>1
<1>7. /\ s \in [1..(L + 1) + 1 -> Nat] /\ s[(L + 1) + 1] = x.addr
      /\ \A i \in 1..L + 1 : s[i] = st[i] /\ i \in 1..(L + 1) + 1
      /\ \A i \in 1..(L + 1) + 1 : i = (L + 1) + 1 \/ i \in 1..L + 1
  <2>1. L \in Nat /\ x.addr \in Nat /\ st \in [1..L + 1 -> Nat]
    BY <1>1, <1>3
  <2>2. ASSUME NEW i \in 1..(L + 1) + 1 PROVE (i = (L + 1) + 1 \/ i \in 1..L + 1) /\ s[i] \in Nat
    <3>1. i = (L + 1) + 1 \/ i \in 1..L + 1
      BY <2>1
    <3>2. CASE i = (L + 1) + 1
      <4>1. s[i] = x.addr
        BY <3>2
      <4> QED BY <2>1, <3>2, <4>1
    <3>3. CASE i # (L + 1) + 1
      <4>1. s[i] = st[i]
        BY <3>3
      <4> QED BY <2>1, <3>1, <3>3, <4>1
    <3> QED BY <3>1, <3>2, <3>3
  <2>3. s \in [1..(L + 1) + 1 -> Nat]
    BY <2>2
  <2>4. (L + 1) + 1 \in 1..(L + 1) + 1
    BY <2>1
  <2>5. ASSUME NEW i \in 1..L + 1 PROVE s[i] = st[i] /\ i \in 1..(L + 1) + 1
    BY <2>1
  <2> QED BY <2>2, <2>3, <2>4, <2>5
<1> HIDE DEF g, s
<1>8. s[1] = u[1].start
  <2>1. 1 \in 1..L + 1
    BY <1>1
  <2> QED BY <1>2, <1>7, <2>1
<1>9. ASSUME NEW i \in 1..(L + 1) + 1, NEW j \in 1..(L + 1) + 1, i < j PROVE s[i] < s[j]
  <2>1. i \in 1..L + 1 /\ L + 1 \in 1..L + 1
    BY <1>1, <1>9
  <2>2. CASE j \in 1..L + 1
    BY <1>2, <1>7, <1>9, <2>1, <2>2
  <2>3. CASE j = (L + 1) + 1
    <3>1. i = L + 1 \/ i < L + 1
      BY <1>1, <2>1
    <3>2. st[i] = w.addr \/ st[i] < w.addr
      BY <1>2, <2>1, <3>1
    <3>3. s[i] = st[i] /\ st[i] \in Nat /\ s[j] = x.addr
      BY <1>2, <1>7, <2>1, <2>3
    <3>4. st[i] <= w.addr
      BY <1>1, <3>2, <3>3
    <3>5. s[i] <= w.addr /\ w.addr < s[j] /\ s[i] \in Nat /\ s[j] \in Nat /\ w.addr \in Nat
      BY <1>1, <1>3, <3>3, <3>4
    <3> DEFINE p == s[i]
               q == s[j]
               a == w.addr
    <3> HIDE DEF p, q, a
    <3>6. p <= a /\ a < q /\ p \in Nat /\ q \in Nat /\ a \in Nat
      BY <3>5 DEF p, q, a
    <3>7. p < q
      BY <3>6
    <3> QED BY <3>7 DEF p, q
  <2> QED BY <1>7, <2>2, <2>3
<1>10. ASSUME NEW i \in 1..L + 1
       PROVE  /\ x.units[i] = Unit(s[i], u[g[i]].state) /\ IsLive(u[g[i]])
              /\ s[i + 1] - s[i] = u[g[i] + 1].start - u[g[i]].start
  <2>1. CASE i = L + 1
    <3>1. s[i] = w.addr /\ s[i + 1] = x.addr /\ g[i] = n
      BY <1>2, <1>6, <1>7, <2>1
    <3>2. x.addr - w.addr = d
      BY <1>1, <1>3
    <3>3. x.units[i] = Unit(w.addr, u[n].state)
      BY <1>5, <2>1 DEF e
    <3> QED BY <3>1, <3>2, <3>3 DEF d
  <2>2. CASE i \in 1..L
    <3>1. i \in 1..L + 1 /\ i + 1 \in 1..L + 1
      BY <1>1, <2>2
    <3>2. s[i] = st[i] /\ s[i + 1] = st[i + 1] /\ g[i] = f[i]
      BY <1>6, <1>7, <2>2, <3>1
    <3> QED BY <1>2, <1>5, <2>2, <3>2
  <2> QED BY <1>6, <2>1, <2>2
<1>11. ASSUME NEW i \in 1..L + 1, NEW j \in 1..L + 1, i < j PROVE g[i] < g[j]
  <2>1. i \in 1..L /\ g[i] = f[i] /\ f[i] \in 1..n - 1
    BY <1>1, <1>2, <1>6, <1>11, SMTT(20)
  <2> QED BY <1>2, <1>6, <1>11, <2>1
<1>12. ASSUME NEW k \in 1..n, IsLive(u[k]) PROVE \E i \in 1..L + 1 : g[i] = k
  <2>1. CASE k = n
    <3>1. L + 1 \in 1..L + 1
      BY <1>1
    <3> QED BY <1>6, <2>1, <3>1
  <2>2. CASE k # n
    <3>1. PICK i \in 1..L : f[i] = k
      BY <1>2, <1>12, <2>2
    <3> QED BY <1>6, <3>1
  <2> QED BY <2>1, <2>2
<1> DEFINE M == L + 1
<1>13. M <= n
  BY <1>1
<1>14. Len(x.units) = M
  BY <1>5
<1>15. /\ g \in [1..M -> 1..n] /\ s \in [1..M + 1 -> Nat]
       /\ s[1] = u[1].start /\ s[M + 1] = x.addr
       /\ \A i, j \in 1..M + 1 : i < j => s[i] < s[j]
       /\ \A i \in 1..M :
            /\ x.units[i] = Unit(s[i], u[g[i]].state) /\ IsLive(u[g[i]])
            /\ s[i + 1] - s[i] = u[g[i] + 1].start - u[g[i]].start
       /\ \A i, j \in 1..M : i < j => g[i] < g[j]
       /\ \A k \in 1..n : IsLive(u[k]) => \E i \in 1..M : g[i] = k
  BY <1>6, <1>7, <1>8, <1>9, <1>10, <1>11, <1>12
<1>16. M = n => x.addr = u[n + 1].start
  BY <1>3
<1>17. x.units \in Seq(Tag) /\ x.addr \in Nat /\ x.addr <= u[n + 1].start
  BY <1>3, <1>5
<1> HIDE DEF M
<1>18. Shifts(u, n, x, Len(x.units))
  <2>1. Shifts(u, n, x, M)
    BY <1>15 DEF Shifts, Shifted
  <2> QED BY <1>14, <2>1
<1>19. Len(x.units) <= n /\ (Len(x.units) = n => x.addr = u[n + 1].start)
  BY <1>13, <1>14, <1>16
<1> QED BY <1>17, <1>18, <1>19 DEF Packed

\* ... and of one that has none.
LEMMA PackedSame ==
  ASSUME NEW u, NEW n \in Nat \ {0}, NEW w, Packed(u, n - 1, w), ~IsLive(u[n]),
         u[n].start \in Nat, u[n + 1].start \in Nat, u[n].start < u[n + 1].start
  PROVE  Packed(u, n, w)
<1> DEFINE L == Len(w.units)
<1>1. /\ w.units \in Seq(Tag) /\ L \in Nat /\ L <= n - 1 /\ w.addr \in Nat /\ w.addr <= u[n].start
  <2>1. (n - 1) + 1 = n
    OBVIOUS
  <2> QED BY <2>1, LenProperties DEF Packed
<1>2. PICK f \in [1..L -> 1..n - 1], st \in [1..L + 1 -> Nat] :
       /\ st[1] = u[1].start /\ st[L + 1] = w.addr
       /\ \A i, j \in 1..L + 1 : i < j => st[i] < st[j]
       /\ \A i \in 1..L :
            /\ w.units[i] = Unit(st[i], u[f[i]].state) /\ IsLive(u[f[i]])
            /\ st[i + 1] - st[i] = u[f[i] + 1].start - u[f[i]].start
       /\ \A i, j \in 1..L : i < j => f[i] < f[j]
       /\ \A k \in 1..n - 1 : IsLive(u[k]) => \E i \in 1..L : f[i] = k
  BY DEF Packed, Shifts, Shifted
<1>3. f \in [1..L -> 1..n]
  OBVIOUS
<1>4. \A k \in 1..n : IsLive(u[k]) => \E i \in 1..L : f[i] = k
  <2> TAKE k \in 1..n
  <2> HAVE IsLive(u[k])
  <2>1. k \in 1..n - 1
    OBVIOUS
  <2> QED BY <1>2, <2>1
<1>5. w.addr <= u[n + 1].start /\ L <= n /\ L # n
  BY <1>1
<1> QED BY <1>1, <1>2, <1>3, <1>4, <1>5 DEF Packed, Shifts, Shifted

Steps(s, N, a, G) == s[0] = a /\ \A n \in 1..N : s[n] = G[n][s[n - 1]]

\* A recursion from step to step.
LEMMA Stepped == ASSUME NEW S, NEW a \in S, NEW N \in Nat, NEW G \in [1..N -> [S -> S]]
                 PROVE  \E s \in [0..N -> S] : Steps(s, N, a, G)
BY Recursion DEF Steps

\* What the compaction makes of all units.
LEMMA MovedFacts ==
  ASSUME NEW m, NEW from \in Nat, NEW to, Loose(m.units, from, to)
  PROVE  Packed(m.units, InUse(m), Moved(m)[InUse(m)])
<1> DEFINE u == m.units
           N == InUse(m)
           step(w, n) == IF IsLive(u[n]) THEN [units |-> Append(w.units, Unit(w.addr, u[n].state)), addr |-> w.addr + SizeOf(m, n)]
                         ELSE w
           P(s) == s = [n \in 0..N |-> IF n = 0 THEN [units |-> << >>, addr |-> u[1].start] ELSE step(s[n - 1], n)]
           S == [units : Seq(Tag), addr : Nat]
           a == [units |-> << >>, addr |-> u[1].start]
           G == [n \in 1..N |-> [w \in S |-> step(w, n)]]
<1>1. /\ Table(u, from, to)
      /\ N \in Nat /\ Len(u) = N + 1
      /\ \A n \in 1..N : /\ u[n] \in Tag /\ u[n].start \in Nat /\ u[n + 1].start \in Nat
                         /\ u[n].start < u[n + 1].start
      /\ u[1].start \in Nat
  <2>1. Table(u, from, to)
    BY TableFacts
  <2> QED BY <2>1 DEF Table, InUse
<1>2. \A n \in 1..N : SizeOf(m, n) = u[n + 1].start - u[n].start
  BY DEF SizeOf
<1> HIDE DEF N, u
<1>3. ASSUME NEW n \in 1..N, NEW w \in S PROVE step(w, n) \in S
  <2>1. u[n].start \in Nat /\ u[n + 1].start \in Nat /\ u[n].start < u[n + 1].start /\ u[n] \in Tag
    BY <1>1
  <2>2. SizeOf(m, n) \in Nat
    BY <1>2, <2>1
  <2>3. Unit(w.addr, u[n].state) \in Tag
    BY <2>1 DEF Unit, Tag
  <2>4. Append(w.units, Unit(w.addr, u[n].state)) \in Seq(Tag)
    BY <2>3, AppendProperties
  <2> QED BY <2>2, <2>4
<1>4. G \in [1..N -> [S -> S]]
  <2> HIDE DEF step, S
  <2> QED BY <1>3
<1>5. G \in [1..N -> [S -> S]] /\ a \in S
  BY <1>1, <1>4
<1>6. PICK s \in [0..N -> S] : s[0] = a /\ \A n \in 1..N : s[n] = G[n][s[n - 1]]
  <2> HIDE DEF S, a, G
  <2> HIDE DEF P, step
  <2>1. N \in Nat
    BY <1>1
  <2>2. \E s \in [0..N -> S] : Steps(s, N, a, G)
    BY <1>5, <2>1, Stepped
  <2> QED BY <2>2 DEF Steps
<1>7. P(s)
  <2> HIDE DEF S, step
  <2>1. ASSUME NEW n \in 0..N
        PROVE  s[n] = IF n = 0 THEN [units |-> << >>, addr |-> u[1].start] ELSE step(s[n - 1], n)
    <3>1. n # 0 => n \in 1..N /\ s[n - 1] \in S
      BY <1>1
    <3>2. s[0] = a
      BY <1>6
    <3>3. ASSUME n # 0 PROVE s[n] = step(s[n - 1], n)
      <4>1. n \in 1..N /\ s[n - 1] \in S
        BY <3>1, <3>3
      <4>2. s[n] = G[n][s[n - 1]]
        BY <1>6, <4>1
      <4> QED BY <4>1, <4>2
    <3> QED BY <3>2, <3>3
  <2>2. s = [n \in 0..N |-> s[n]]
    OBVIOUS
  <2> QED BY <2>1, <2>2, Zenon
<1>8. Moved(m) = CHOOSE f : P(f)
  BY Zenon DEF Moved, N, u
<1>9. P(CHOOSE f : P(f))
  <2> HIDE DEF P
  <2> QED BY <1>7, Zenon
<1> DEFINE t == Moved(m)
<1>10. t = [n \in 0..N |-> IF n = 0 THEN [units |-> << >>, addr |-> u[1].start] ELSE step(t[n - 1], n)]
  <2> HIDE DEF step
  <2> QED BY <1>8, <1>9, Zenon
<1> HIDE DEF t, S, G, a, P
<1> DEFINE I == {n \in 0..N : Packed(u, n, t[n])}
<1>11. 0 \in I
  <2>1. t[0] = [units |-> << >>, addr |-> u[1].start]
    BY <1>1, <1>10
  <2> QED BY <1>1, <2>1, PackedNone
<1>12. ASSUME NEW n \in 1..N, n - 1 \in I PROVE n \in I
  <2>1. n \in 0..N /\ n # 0 /\ n \in Nat \ {0} /\ Packed(u, n - 1, t[n - 1])
    BY <1>1, <1>12
  <2>2. t[n] = step(t[n - 1], n)
    <3> HIDE DEF step
    <3> QED BY <1>10, <2>1
  <2>3. u[n].start \in Nat /\ u[n + 1].start \in Nat /\ u[n].start < u[n + 1].start /\ u[n] \in Tag
    BY <1>1
  <2>4. CASE IsLive(u[n])
    <3>1. t[n] = [units |-> Append(t[n - 1].units, Unit(t[n - 1].addr, u[n].state)), addr |-> t[n - 1].addr + SizeOf(m, n)]
      BY <2>2, <2>4
    <3>2. t[n].units = Append(t[n - 1].units, Unit(t[n - 1].addr, u[n].state))
          /\ t[n].addr = t[n - 1].addr + (u[n + 1].start - u[n].start)
      BY <1>2, <3>1
    <3>3. Packed(u, n, t[n])
      BY <2>1, <2>3, <2>4, <3>2, PackedMore
    <3> QED BY <2>1, <3>3
  <2>5. CASE ~IsLive(u[n])
    <3>1. t[n] = t[n - 1]
      BY <2>2, <2>5
    <3>2. Packed(u, n, t[n - 1])
      BY <2>1, <2>3, <2>5, PackedSame
    <3> QED BY <2>1, <3>1, <3>2
  <2> QED BY <2>4, <2>5
<1>13. \A n \in 0..N : n \in I
  <2> HIDE DEF I
  <2> QED BY <1>1, <1>11, <1>12, UpTo
<1>14. Packed(u, N, t[N])
  BY <1>1, <1>13
<1> QED BY <1>14 DEF t, N, u

\* What each owner has in m it has in n, of the same size, wherever.
Carries(m, n) ==
  \A o \in Names :
    /\ {b \in LiveIn(m) : b.by = o} = {} => {c \in LiveIn(n) : c.by = o} = {}
    /\ \A b : {x \in LiveIn(m) : x.by = o} = {b}
              => \E c : {x \in LiveIn(n) : x.by = o} = {c} /\ c.size = b.size /\ c.by = b.by

\* The new table, by its entries.
Laid(v, w, M, K, to) ==
  /\ Len(v) = K + 1 /\ v \in Seq(Tag) /\ v[K + 1] = Unit(to, "used")
  /\ \A i \in 1..M : v[i] = w.units[i]
  /\ \/ K = M /\ w.addr = to
     \/ K = M + 1 /\ w.addr # to /\ v[M + 1] = Unit(w.addr, "free")

\* x is q with the one entry of e behind it.
Ending(S, q, e, x) == /\ x \in Seq(S) /\ Len(x) = Len(q) + 1 /\ x[Len(q) + 1] = e[1]
                      /\ \A i \in 1..Len(q) : x[i] = q[i]

\* An entry behind the others.
LEMMA EndingFacts ==
  ASSUME NEW S, NEW q \in Seq(S), NEW e \in Seq(S), Len(e) = 1
  PROVE  Ending(S, q, e, q \o e)
<1> DEFINE n == Len(q)
           x == q \o e
<1>1. n \in Nat
  BY LenProperties
<1>2. x \in Seq(S) /\ Len(x) = n + 1 /\ \A i \in 1..n + 1 : x[i] = IF i <= n THEN q[i] ELSE e[i - n]
  BY ConcatProperties
<1> HIDE DEF n, x
<1>3. x[n + 1] = e[1]
  <2>1. n + 1 \in 1..n + 1 /\ ~(n + 1 <= n) /\ (n + 1) - n = 1
    BY <1>1
  <2> QED BY <1>2, <2>1
<1>4. \A i \in 1..n : x[i] = q[i]
  BY <1>1, <1>2
<1> QED BY <1>2, <1>3, <1>4 DEF Ending, n, x

\* The table after a compaction, entry by entry.
LEMMA ResetLaid ==
  ASSUME NEW m \in Heap, NEW from \in Nat, NEW to, Loose(m.units, from, to),
         NEW w, w = Moved(m)[InUse(m)], w.units \in Seq(Tag), w.addr \in Nat
  PROVE  \E K \in Nat : Laid(GV_ResetDynamicMemorySystem(m), w, Len(w.units), K, to)
<1> DEFINE u == m.units
           L == Len(u)
           M == Len(w.units)
           rest == IF w.addr = HeapEnd(m) THEN << >> ELSE <<Unit(w.addr, "free")>>
           end == <<Unit(to, "used")>>
           v == w.units \o rest \o end
<1>1. Last(u) = Unit(to, "used") /\ HeapEnd(m) = to /\ to \in Nat
  <2>1. u # << >> /\ u[Len(u)] = Unit(to, "used") /\ to \in Nat
    BY TableFacts DEF Loose, Table
  <2>2. Last(u) = Unit(to, "used")
    BY <2>1 DEF Last
  <2> QED BY <2>1, <2>2 DEF HeapEnd, Unit
<1>2. GV_ResetDynamicMemorySystem(m) = v
  BY <1>1 DEF GV_ResetDynamicMemorySystem
<1>3. Unit(to, "used") \in Tag /\ Unit(w.addr, "free") \in Tag
  BY <1>1 DEF Unit, Tag
<1>4. M \in Nat
  BY LenProperties
<1> HIDE DEF M
<1>5. CASE w.addr = to
  <2>1. rest = << >> /\ end \in Seq(Tag) /\ Len(end) = 1 /\ end[1] = Unit(to, "used")
    BY <1>1, <1>3, <1>5
  <2>2. v = w.units \o end
    <3>1. w.units \o << >> = w.units
      OBVIOUS
    <3> QED BY <2>1, <3>1
  <2>3. v \in Seq(Tag) /\ Len(v) = M + 1 /\ (\A i \in 1..M : v[i] = w.units[i]) /\ v[M + 1] = Unit(to, "used")
    <3> HIDE DEF end, v
    <3>1. Ending(Tag, w.units, end, v)
      BY <2>1, <2>2, EndingFacts
    <3> QED BY <2>1, <3>1 DEF Ending, M
  <2> HIDE DEF v
  <2>4. Laid(v, w, M, M, to)
    BY <1>5, <2>3 DEF Laid
  <2> QED BY <1>2, <1>4, <2>4 DEF M
<1>6. CASE w.addr # to
  <2> DEFINE t == w.units \o <<Unit(w.addr, "free")>>
             r == <<Unit(w.addr, "free")>>
  <2>1. rest = r /\ r \in Seq(Tag) /\ Len(r) = 1 /\ r[1] = Unit(w.addr, "free")
        /\ end \in Seq(Tag) /\ Len(end) = 1 /\ end[1] = Unit(to, "used")
    BY <1>1, <1>3, <1>6
  <2>2. v = t \o end
    BY <2>1
  <2>3. t \in Seq(Tag) /\ Len(t) = M + 1 /\ (\A i \in 1..M : t[i] = w.units[i]) /\ t[M + 1] = Unit(w.addr, "free")
    <3>1. t = w.units \o r
      OBVIOUS
    <3> HIDE DEF r, t
    <3>2. Ending(Tag, w.units, r, t)
      BY <2>1, <3>1, EndingFacts
    <3> QED BY <2>1, <3>2 DEF Ending, M
  <2>4. v \in Seq(Tag) /\ Len(v) = (M + 1) + 1 /\ (\A i \in 1..M + 1 : v[i] = t[i]) /\ v[(M + 1) + 1] = Unit(to, "used")
    <3> HIDE DEF end, v, t
    <3>1. Ending(Tag, t, end, v)
      BY <2>1, <2>2, <2>3, EndingFacts
    <3> QED BY <2>1, <2>3, <3>1 DEF Ending
  <2> HIDE DEF v, t
  <2>5. Laid(v, w, M, M + 1, to)
    <3>1. \A i \in 1..M : i \in 1..M + 1
      BY <1>4
    <3>2. M + 1 \in 1..M + 1
      BY <1>4
    <3> QED BY <1>6, <2>3, <2>4, <3>1, <3>2 DEF Laid
  <2> QED BY <1>2, <1>4, <2>5 DEF M
<1> QED BY <1>5, <1>6

\* A compaction leaves each owner what it has, elsewhere.
LEMMA ResetDynamic ==
  ASSUME NEW m \in Heap, NEW from \in Nat, NEW to, Cut(m.units, from, to), NEW n, n.units = GV_ResetDynamicMemorySystem(m)
  PROVE  Cut(n.units, from, to) /\ Carries(m, n)
<1> DEFINE u == m.units
           N == InUse(m)
           w == Moved(m)[N]
           M == Len(w.units)
           v == n.units
<1>1. Loose(u, from, to)
  BY CutLoose
<1>2. /\ Table(u, from, to) /\ N \in Nat /\ Len(u) = N + 1 /\ N >= 1 /\ Len(u) <= MaxUnits
      /\ u[1].start = from /\ u[N + 1].start = to /\ to \in Nat /\ from < to
      /\ \A i \in 1..N : u[i].state \in {"free", "void"} \cup Names /\ u[i] \in Tag
  <2>1. Table(u, from, to)
    BY <1>1, TableFacts
  <2>2. N \in Nat /\ Len(u) = N + 1 /\ N >= 1 /\ u[1].start = from /\ u[N + 1].start = to /\ to \in Nat
    BY <1>1, <2>1 DEF Table, Loose, InUse
  <2>3. from < to
    <3>1. 1 \in 1..N + 1 /\ N + 1 \in 1..N + 1 /\ 1 < N + 1
      BY <2>2
    <3>2. u[1].start < u[N + 1].start
      BY <1>1, <2>2, <3>1 DEF Loose, Sorted
    <3> QED BY <2>2, <3>2
  <2> QED BY <1>1, <2>1, <2>2, <2>3 DEF Table, Loose
<1>3. Packed(u, N, w)
  BY <1>1, MovedFacts
<1>4. M \in Nat /\ M <= N /\ w.units \in Seq(Tag) /\ w.addr \in Nat /\ w.addr <= to /\ (M = N => w.addr = to)
  BY <1>2, <1>3, LenProperties DEF Packed
<1>5. PICK f \in [1..M -> 1..N], st \in [1..M + 1 -> Nat] : Shifted(u, N, w, M, f, st)
  BY <1>3 DEF Packed, Shifts
<1>6. PICK K \in Nat : Laid(v, w, M, K, to)
  <2>1. \E K \in Nat : Laid(GV_ResetDynamicMemorySystem(m), w, M, K, to)
    BY <1>1, <1>4, ResetLaid
  <2> QED BY <2>1
<1> HIDE DEF u, N, w, M, v
<1>7. (K = M \/ K = M + 1) /\ K >= 1 /\ K <= N
  <2>1. st[M + 1] = w.addr /\ st[1] = from
    BY <1>2, <1>5 DEF Shifted
  <2>2. M = 0 => w.addr # to
    <3>1. ASSUME M = 0 PROVE w.addr = from
      <4>1. M + 1 = 1
        BY <3>1
      <4> QED BY <2>1, <4>1
    <3>2. from # to
      BY <1>2
    <3> QED BY <3>1, <3>2
  <2>3. (K = M /\ w.addr = to) \/ (K = M + 1 /\ w.addr # to)
    BY <1>6 DEF Laid
  <2>4. CASE K = M /\ w.addr = to
    <3>1. M # 0
      BY <2>2, <2>4
    <3> QED BY <1>4, <1>2, <2>4, <3>1
  <2>5. CASE K = M + 1 /\ w.addr # to
    <3>1. M # N
      BY <1>4, <2>5
    <3>2. M < N
      BY <1>2, <1>4, <3>1
    <3> QED BY <1>2, <1>4, <2>5, <3>2
  <2> QED BY <2>3, <2>4, <2>5
<1>8. M + 1 \in 1..K + 1 /\ (\A i \in 1..M : i \in 1..K /\ i + 1 \in 1..K + 1 /\ i \in 1..M + 1 /\ i + 1 \in 1..M + 1)
      /\ (\A i \in 1..K + 1 : i \in 1..M \/ i = M + 1 \/ (i = (M + 1) + 1 /\ K = M + 1))
  BY <1>4, <1>7
<1>9. /\ \A i \in 1..M : v[i] = Unit(st[i], u[f[i]].state) /\ f[i] \in 1..N
      /\ v[M + 1].start = st[M + 1] /\ st[M + 1] = w.addr
      /\ K = M + 1 => v[(M + 1) + 1].start = to /\ w.addr < to /\ v[M + 1].state = "free"
  <2>1. \A i \in 1..M : v[i] = Unit(st[i], u[f[i]].state) /\ f[i] \in 1..N
    BY <1>5, <1>6 DEF Shifted, Laid
  <2>2. st[M + 1] = w.addr
    BY <1>5 DEF Shifted
  <2>3. CASE K = M
    <3>1. v[M + 1].start = to /\ w.addr = to
      BY <1>4, <1>6, <2>3 DEF Laid, Unit
    <3> QED BY <1>4, <2>1, <2>2, <2>3, <3>1
  <2>4. CASE K = M + 1
    <3>1. v[M + 1] = Unit(w.addr, "free") /\ v[(M + 1) + 1] = Unit(to, "used") /\ w.addr # to
      BY <1>4, <1>6, <2>4 DEF Laid
    <3>2. w.addr < to
      BY <1>2, <1>4, <3>1
    <3> QED BY <2>1, <2>2, <3>1, <3>2 DEF Unit
  <2> QED BY <1>7, <2>3, <2>4
<1>10. \A i \in 1..M + 1 : v[i].start = st[i]
  <2> TAKE i \in 1..M + 1
  <2>1. i = M + 1 \/ i \in 1..M
    BY <1>4
  <2>2. ASSUME i \in 1..M PROVE v[i].start = st[i]
    <3>1. v[i] = Unit(st[i], u[f[i]].state)
      BY <1>9, <2>2
    <3> QED BY <3>1 DEF Unit
  <2> QED BY <1>9, <2>1, <2>2
<1>11. \A i \in 1..M : /\ v[i + 1].start - v[i].start = u[f[i] + 1].start - u[f[i]].start
                       /\ v[i].state = u[f[i]].state /\ IsLive(u[f[i]])
  <2> TAKE i \in 1..M
  <2>1. v[i + 1].start = st[i + 1] /\ v[i].start = st[i]
    BY <1>8, <1>10
  <2>2. v[i] = Unit(st[i], u[f[i]].state)
    BY <1>9
  <2>3. v[i].state = u[f[i]].state
    BY <2>2 DEF Unit
  <2> QED BY <1>5, <2>1, <2>3 DEF Shifted
<1>12. \A i, j \in 1..K + 1 : i < j => v[i].start < v[j].start
  <2> TAKE i, j \in 1..K + 1
  <2> HAVE i < j
  <2>1. CASE j \in 1..M + 1
    <3>1. i \in 1..M + 1 /\ st[i] < st[j]
      BY <1>4, <1>5, <2>1 DEF Shifted
    <3> QED BY <1>10, <2>1, <3>1
  <2>2. CASE j = (M + 1) + 1 /\ K = M + 1
    <3>1. v[j].start = to /\ w.addr < to
      BY <1>9, <2>2
    <3>2. i \in 1..M + 1 /\ M + 1 \in 1..M + 1 /\ (i = M + 1 \/ i < M + 1)
      BY <1>4, <2>2
    <3>3. st[i] = st[M + 1] \/ st[i] < st[M + 1]
      BY <1>5, <3>2 DEF Shifted
    <3>4. st[i] \in Nat /\ st[M + 1] = w.addr /\ v[i].start = st[i]
      BY <1>9, <1>10, <3>2
    <3>5. st[i] < to
      <4> DEFINE p == st[i]
                 a == w.addr
      <4>1. p \in Nat /\ a \in Nat /\ to \in Nat /\ (p = a \/ p < a) /\ a < to
        BY <1>2, <1>4, <3>1, <3>3, <3>4
      <4> HIDE DEF p, a
      <4>2. p < to
        BY <4>1
      <4> QED BY <4>2 DEF p
    <3> QED BY <3>1, <3>4, <3>5
  <2>3. j \in 1..M + 1 \/ (j = (M + 1) + 1 /\ K = M + 1)
    <3>1. j \in 1..M \/ j = M + 1 \/ (j = (M + 1) + 1 /\ K = M + 1)
      BY <1>8
    <3> QED BY <1>4, <3>1
  <2> QED BY <2>1, <2>2, <2>3
<1>13. Cut(v, from, to)
  <2>1. v \in Seq(Tag) /\ Len(v) = K + 1 /\ v[K + 1] = Unit(to, "used")
    BY <1>6 DEF Laid
  <2>2. v[1].start = from
    <3>1. 1 \in 1..M + 1 /\ st[1] = u[1].start
      BY <1>4, <1>5 DEF Shifted
    <3> QED BY <1>2, <1>10, <3>1
  <2>3. K + 1 \in 2..MaxUnits
    BY <1>2, <1>7, MaxUnitsAssumption
  <2>4. ASSUME NEW i \in 1..K
        PROVE  v[i].state \in {"free", "void"} \cup Names /\ (v[i].state = "free" => v[i + 1].state # "free")
    <3>1. CASE i \in 1..M
      <4>1. v[i].state = u[f[i]].state /\ IsLive(u[f[i]]) /\ f[i] \in 1..N
        BY <1>9, <1>11, <3>1
      <4> QED BY <1>2, <4>1 DEF IsLive
    <3>2. CASE i = M + 1 /\ K = M + 1
      <4>1. v[i].state = "free" /\ v[i + 1] = Unit(to, "used")
        BY <1>4, <1>9, <2>1, <3>2
      <4> QED BY <4>1 DEF Unit
    <3> QED BY <1>4, <1>7, <3>1, <3>2
  <2>5. (K + 1) - 1 = K
    OBVIOUS
  <2> QED BY <1>12, <2>1, <2>2, <2>3, <2>4, <2>5 DEF Cut
<1>14. Loose(v, from, to)
  BY <1>13, CutLoose
<1>15. InUse(n) = K
  BY <1>6 DEF InUse, Laid, v
<1>16. ASSUME NEW c \in LiveIn(n)
       PROVE  \E i \in 1..M : c = BlockAt(n, i)
  <2>1. PICK i \in 1..K : c = BlockAt(n, i) /\ IsLive(v[i])
    BY <1>15 DEF LiveIn, v
  <2>2. i \in 1..M
    <3>1. i # M + 1
      BY <1>9, <1>7, <1>4, <2>1 DEF IsLive
    <3> QED BY <1>4, <1>7, <3>1
  <2> QED BY <2>1, <2>2
<1>17. ASSUME NEW i \in 1..M
       PROVE  /\ BlockAt(n, i) \in LiveIn(n) /\ BlockAt(m, f[i]) \in LiveIn(m) /\ f[i] \in 1..N
              /\ BlockAt(n, i).size = BlockAt(m, f[i]).size /\ BlockAt(n, i).by = BlockAt(m, f[i]).by
  <2>1. i \in 1..K /\ f[i] \in 1..N /\ v[i].state = u[f[i]].state /\ IsLive(u[f[i]])
    BY <1>8, <1>9, <1>11
  <2>2. IsLive(v[i])
    BY <2>1 DEF IsLive
  <2>3. BlockAt(n, i) \in LiveIn(n)
    BY <1>15, <2>1, <2>2 DEF LiveIn, v
  <2>4. BlockAt(m, f[i]) \in LiveIn(m)
    BY <2>1 DEF LiveIn, u, N
  <2>5. SizeOf(n, i) = SizeOf(m, f[i])
    BY <1>11 DEF SizeOf, u, v
  <2> QED BY <2>1, <2>3, <2>4, <2>5 DEF BlockAt, u, v
<1>18. ASSUME NEW b \in LiveIn(m) PROVE \E i \in 1..M : b = BlockAt(m, f[i])
  <2>1. PICK k \in 1..N : b = BlockAt(m, k) /\ IsLive(u[k])
    BY DEF LiveIn, u, N
  <2>2. PICK i \in 1..M : f[i] = k
    BY <1>5, <2>1 DEF Shifted
  <2> QED BY <2>1, <2>2
<1>19. \A i, j \in 1..M : BlockAt(m, f[i]) = BlockAt(m, f[j]) => i = j
  <2> TAKE i, j \in 1..M
  <2> HAVE BlockAt(m, f[i]) = BlockAt(m, f[j])
  <2>1. f[i] \in 1..N /\ f[j] \in 1..N /\ u[f[i]].start = u[f[j]].start
    BY <1>17 DEF BlockAt, u
  <2>2. \A k \in 1..N + 1 : u[k].start \in Nat
    BY <1>2 DEF Table
  <2>3. f[i] = f[j]
    <3>1. ~(f[i] < f[j]) /\ ~(f[j] < f[i])
      <4>1. f[i] \in 1..N + 1 /\ f[j] \in 1..N + 1
        BY <1>2, <2>1
      <4>2. \A a, b \in 1..N + 1 : a < b => u[a].start < u[b].start
        BY <1>1, <1>2 DEF Loose, Sorted
      <4>3. u[f[i]].start \in Nat
        BY <2>2, <4>1
      <4> DEFINE p == u[f[i]].start
      <4>4. ~(p < p)
        <5>1. p \in Nat
          BY <4>3
        <5> HIDE DEF p
        <5> QED BY <5>1
      <4> QED BY <2>1, <4>1, <4>2, <4>4
    <3> QED BY <1>2, <2>1, <3>1
  <2>4. ~(i < j) /\ ~(j < i)
    <3>1. ~(f[i] < f[j]) /\ ~(f[j] < f[i])
      BY <1>2, <2>1, <2>3
    <3> QED BY <1>5, <3>1 DEF Shifted
  <2> QED BY <1>4, <2>4
<1>20. Carries(m, n)
  <2> SUFFICES ASSUME NEW o \in Names
               PROVE  /\ {b \in LiveIn(m) : b.by = o} = {} => {c \in LiveIn(n) : c.by = o} = {}
                      /\ \A b : {x \in LiveIn(m) : x.by = o} = {b}
                                => \E c : {x \in LiveIn(n) : x.by = o} = {c} /\ c.size = b.size /\ c.by = b.by
    BY DEF Carries
  <2>1. ASSUME {b \in LiveIn(m) : b.by = o} = {}, NEW c \in LiveIn(n), c.by = o PROVE FALSE
    <3>1. PICK i \in 1..M : c = BlockAt(n, i)
      BY <1>16
    <3>2. BlockAt(m, f[i]) \in LiveIn(m) /\ BlockAt(m, f[i]).by = o
      BY <1>17, <2>1, <3>1
    <3> QED BY <2>1, <3>2
  <2>2. ASSUME NEW b, {x \in LiveIn(m) : x.by = o} = {b}
        PROVE  \E c : {x \in LiveIn(n) : x.by = o} = {c} /\ c.size = b.size /\ c.by = b.by
    <3>1. b \in LiveIn(m) /\ b.by = o
      BY <2>2
    <3>2. PICK i \in 1..M : b = BlockAt(m, f[i])
      BY <1>18, <3>1
    <3>3. BlockAt(n, i) \in LiveIn(n) /\ BlockAt(n, i).by = o /\ BlockAt(n, i).size = b.size
      BY <1>17, <3>1, <3>2
    <3>4. ASSUME NEW x \in LiveIn(n), x.by = o PROVE x = BlockAt(n, i)
      <4>1. PICK j \in 1..M : x = BlockAt(n, j)
        BY <1>16
      <4>2. BlockAt(m, f[j]) \in LiveIn(m) /\ BlockAt(m, f[j]).by = o
        BY <1>17, <3>4, <4>1
      <4>3. BlockAt(m, f[j]) = b
        BY <2>2, <4>2
      <4>4. j = i
        BY <1>19, <3>2, <4>3
      <4> QED BY <4>1, <4>4
    <3>5. {x \in LiveIn(n) : x.by = o} = {BlockAt(n, i)}
      BY <3>3, <3>4
    <3> QED BY <3>1, <3>3, <3>5
  <2> QED BY <2>1, <2>2
<1> QED BY <1>13, <1>20 DEF v

-----------------------------------------------------------------------------
(* The clearing of a heap. *)

\* Nothing has moved.
LEMMA SameCarries == ASSUME NEW m, NEW n, LiveIn(n) = LiveIn(m) PROVE Carries(m, n)
BY DEF Carries

\* After what has moved, nothing moves.
LEMMA CarriesOn == ASSUME NEW k, NEW m, NEW n, Carries(k, m), LiveIn(n) = LiveIn(m) PROVE Carries(k, n)
BY DEF Carries

\* GV_ClearMemorySystem leaves each owner a block of the same size, and moves it only in a heap
\* that is compacted.
THEOREM ClearMemorySystem ==
  ASSUME NEW m \in Heap, NEW from \in Nat, NEW to, Cut(m.units, from, to)
  PROVE  LET n == GV_ClearMemorySystem(m) IN
         /\ n \in Heap /\ n.dynamic = m.dynamic /\ Cut(n.units, from, to) /\ Carries(m, n)
         /\ ~m.dynamic => LiveIn(n) = LiveIn(m)
<1> DEFINE packed == m.failed /\ m.dynamic
           k == IF packed THEN [m EXCEPT !.units = GV_ResetDynamicMemorySystem(m)] ELSE m
           n == GV_ClearMemorySystem(m)
<1>1. n = [k EXCEPT !.voided = FALSE, !.failed = FALSE,
                    !.units = IF m.voided THEN GV_ResetVoidedMemorySystem(k) ELSE @]
  BY Zenon DEF GV_ClearMemorySystem
<1>2. /\ k \in Heap /\ k.dynamic = m.dynamic /\ Cut(k.units, from, to) /\ Carries(m, k)
      /\ ~m.dynamic => k = m
  <2>1. CASE packed
    <3>1. k = [m EXCEPT !.units = GV_ResetDynamicMemorySystem(m)]
      BY <2>1
    <3>2. k.units = GV_ResetDynamicMemorySystem(m) /\ k.dynamic = m.dynamic
      BY <3>1 DEF Heap
    <3> HIDE DEF k
    <3>3. Cut(k.units, from, to) /\ Carries(m, k)
      BY <3>2, ResetDynamic
    <3>4. k.units \in Seq(Tag)
      BY <3>3 DEF Cut
    <3>5. k \in Heap
      BY <3>1, <3>2, <3>4 DEF Heap
    <3> QED BY <2>1, <3>2, <3>3, <3>5
  <2>2. CASE ~packed
    <3>1. k = m
      BY <2>2
    <3> QED BY <3>1, SameCarries
  <2> QED BY <2>1, <2>2
<1> HIDE DEF k, packed
<1>3. /\ n.dynamic = k.dynamic /\ n.voided = FALSE /\ n.failed = FALSE
      /\ n.units = (IF m.voided THEN GV_ResetVoidedMemorySystem(k) ELSE k.units)
      /\ n = [dynamic |-> k.dynamic, voided |-> FALSE, failed |-> FALSE, units |-> n.units]
  BY <1>1, <1>2 DEF Heap
<1> HIDE DEF n
<1>4. Cut(n.units, from, to) /\ LiveIn(n) = LiveIn(k)
  <2>1. CASE m.voided
    BY <1>2, <1>3, <2>1, ResetVoided
  <2>2. CASE ~m.voided
    <3>1. n.units = k.units
      BY <1>3, <2>2
    <3>2. LiveIn(n) = LiveIn(k)
      BY <3>1, SameBlocks
    <3> QED BY <1>2, <3>1, <3>2
  <2> QED BY <2>1, <2>2
<1>5. n \in Heap
  <2>1. n.units \in Seq(Tag)
    BY <1>4 DEF Cut
  <2>2. k.dynamic \in BOOLEAN
    BY <1>2 DEF Heap
  <2> QED BY <1>3, <2>1, <2>2 DEF Heap
<1>6. Carries(m, n)
  BY <1>2, <1>4, CarriesOn
<1>7. n.dynamic = m.dynamic /\ (~m.dynamic => LiveIn(n) = LiveIn(m))
  BY <1>2, <1>3, <1>4
<1> QED BY <1>4, <1>5, <1>6, <1>7 DEF n

NoHeap == GV_InitMemorySystem(FALSE, Null, 0)

\* A heap that is of no size is left as it is, and has no blocks.
LEMMA NoHeapFacts ==
  /\ GV_ClearMemorySystem(NoHeap) = NoHeap /\ LiveIn(NoHeap) = {}
  /\ NoHeap \in Heap
  /\ \A b \in FreeIn(NoHeap) : b = [start |-> 0, size |-> 0, by |-> "free"]
<1>1. /\ NoHeap.dynamic = FALSE /\ NoHeap.voided = FALSE /\ NoHeap.failed = FALSE
      /\ NoHeap.units = <<Unit(0, "free"), Unit(0, "used")>>
      /\ NoHeap = [dynamic |-> FALSE, voided |-> FALSE, failed |-> FALSE, units |-> <<Unit(0, "free"), Unit(0, "used")>>]
  BY DEF NoHeap, GV_InitMemorySystem, Null
<1>2. GV_ClearMemorySystem(NoHeap) = NoHeap
  BY <1>1 DEF GV_ClearMemorySystem
<1>3. InUse(NoHeap) = 1 /\ NoHeap.units[1] = Unit(0, "free") /\ NoHeap.units[2] = Unit(0, "used")
  BY <1>1 DEF InUse
<1>4. LiveIn(NoHeap) = {}
  BY <1>3 DEF LiveIn, IsLive, Unit
<1>5. \A b \in FreeIn(NoHeap) : b = [start |-> 0, size |-> 0, by |-> "free"]
  BY <1>3 DEF FreeIn, Unit, BlockAt, SizeOf
<1>6. NoHeap \in Heap
  <2>1. Unit(0, "free") \in Tag /\ Unit(0, "used") \in Tag
    BY DEF Unit, Tag
  <2> QED BY <1>1, <2>1 DEF Heap
<1> QED BY <1>2, <1>4, <1>5, <1>6

\* A new heap is one free block.
LEMMA NewHeap ==
  ASSUME NEW dynamic \in BOOLEAN, NEW from \in Nat, NEW size \in Nat \ {0}
  PROVE  LET n == GV_InitMemorySystem(dynamic, from, size) IN
         /\ n \in Heap /\ n.dynamic = dynamic /\ Cut(n.units, from, from + size) /\ LiveIn(n) = {}
         /\ \A b \in FreeIn(n) : b = [start |-> from, size |-> size, by |-> "free"]
<1> DEFINE n == GV_InitMemorySystem(dynamic, from, size)
<1>1. /\ n.dynamic = dynamic /\ n.units = <<Unit(from, "free"), Unit(from + size, "used")>>
      /\ n = [dynamic |-> dynamic, voided |-> FALSE, failed |-> FALSE, units |-> <<Unit(from, "free"), Unit(from + size, "used")>>]
  BY DEF GV_InitMemorySystem
<1> HIDE DEF n
<1>2. Unit(from, "free") \in Tag /\ Unit(from + size, "used") \in Tag
  BY DEF Unit, Tag
<1>3. n \in Heap
  BY <1>1, <1>2 DEF Heap
<1>4. /\ InUse(n) = 1 /\ Len(n.units) = 2 /\ n.units \in Seq(Tag)
      /\ n.units[1] = Unit(from, "free") /\ n.units[2] = Unit(from + size, "used")
  BY <1>1, <1>2 DEF InUse
<1>5. LiveIn(n) = {}
  BY <1>4 DEF LiveIn, IsLive, Unit
<1>6. \A b \in FreeIn(n) : b = [start |-> from, size |-> size, by |-> "free"]
  BY <1>4 DEF FreeIn, Unit, BlockAt, SizeOf
<1>7. Cut(n.units, from, from + size)
  <2>1. 2 \in 2..MaxUnits
    BY MaxUnitsAssumption
  <2>2. n.units[1].start < n.units[2].start
    BY <1>4 DEF Unit
  <2>3. \A i, j \in 1..2 : i < j => i = 1 /\ j = 2
    OBVIOUS
  <2> QED BY <1>4, <2>1, <2>2, <2>3 DEF Cut, Unit
<1> QED BY <1>1, <1>3, <1>5, <1>6, <1>7 DEF n

-----------------------------------------------------------------------------
(* A recursion from object to object; the objects' pointers; frees of packets. *)

\* A recursion whose n-th value is in the n-th set.
Follows(s, N, a, T, G) ==
  /\ s[0] = a
  /\ \A n \in 1..N : s[n] = G[n][s[n - 1]]
  /\ \A n \in 0..N : s[n] \in T[n]

\* A recursion whose n-th value is in the n-th set exists.
LEMMA Graded ==
  ASSUME NEW N \in Nat, NEW T, NEW a \in T[0], NEW G, \A n \in 1..N : \A x \in T[n - 1] : G[n][x] \in T[n]
  PROVE  \E s \in [0..N -> UNION {T[n] : n \in 0..N}] : Follows(s, N, a, T, G)
<1> DEFINE S == UNION {T[n] : n \in 0..N}
           H == [n \in 1..N |-> [x \in S |-> IF x \in T[n - 1] THEN G[n][x] ELSE x]]
<1>1. a \in S
  <2>1. 0 \in 0..N
    OBVIOUS
  <2> QED BY <2>1
<1>2. ASSUME NEW n \in 1..N, NEW x \in T[n - 1] PROVE x \in S /\ G[n][x] \in T[n] /\ G[n][x] \in S
  <2>1. n - 1 \in 0..N /\ n \in 0..N
    OBVIOUS
  <2> QED BY <2>1
<1> HIDE DEF S
<1>3. H \in [1..N -> [S -> S]]
  BY <1>2
<1>4. \A n \in 1..N : \A x \in T[n - 1] : H[n][x] = G[n][x]
  BY <1>2
<1> HIDE DEF H
<1>5. PICK s \in [0..N -> S] : Steps(s, N, a, H)
  <2>1. \E s \in [0..N -> S] : Steps(s, N, a, H)
    BY <1>1, <1>3, Stepped
  <2> QED BY <2>1
<1> DEFINE I == {n \in 0..N : s[n] \in T[n]}
<1>6. 0 \in I
  BY <1>5 DEF Steps
<1>7. ASSUME NEW n \in 1..N, n - 1 \in I PROVE n \in I
  <2>1. s[n - 1] \in T[n - 1] /\ s[n] = H[n][s[n - 1]]
    BY <1>5, <1>7 DEF Steps
  <2> QED BY <1>2, <1>4, <2>1
<1>8. \A n \in 0..N : n \in I
  <2> HIDE DEF I
  <2> QED BY <1>6, <1>7, UpTo
<1>9. \A n \in 1..N : s[n] = G[n][s[n - 1]]
  <2> TAKE n \in 1..N
  <2>1. n - 1 \in 0..N
    OBVIOUS
  <2>2. s[n - 1] \in T[n - 1]
    BY <1>8, <2>1
  <2> QED BY <1>4, <1>5, <2>2 DEF Steps
<1>10. Follows(s, N, a, T, G)
  BY <1>5, <1>8, <1>9 DEF Follows, Steps
<1> QED BY <1>10 DEF S

-----------------------------------------------------------------------------
\* The blocks of an owner, and the heap of list w as the objects' pointers p have it.
Own(m, o) == {b \in LiveIn(m) : b.by = o}
Owned(p, m, w) == \A o \in Objects : Own(m, o) = IF p[o][w] = Null THEN {} ELSE {Read(p[o][w], o)}
Has(k, m) == \A n \in Prims \cup Works : Own(m, n) = IF k[n] = Null THEN {} ELSE {Read(k[n], n)}
Packs == [Objects -> [{0, 1} -> Nat]]

\* An owner's units are its blocks.
LEMMA OwnSet == ASSUME NEW m, NEW o \in Names
                PROVE {BlockAt(m, i) : i \in {i \in 1..InUse(m) : m.units[i].state = o}} = Own(m, o)
<1>1. o \notin {"free", "void"}
  BY NamesFacts
<1> QED BY <1>1 DEF Own, LiveIn, IsLive, BlockAt

\* PointersRight, heap by heap, ...
LEMMA Owners ==
  ASSUME block \in [Prims \cup Works -> Nat]
  PROVE  PointersRight <=> /\ \A w \in {0, 1} : Owned(packs, heap[w], w)
                           /\ \A o \in Objects, w \in {0, 1} : packs[o][w] # Null => o \in Queued /\ codec = "closed"
                           /\ Has(block, heap[2])
<1>1. \A w \in {0, 1}, o \in Objects :
        {BlockOf(w, i) : i \in {i \in Units(w) : heap[w].units[i].state = o}} = Own(heap[w], o)
  <2> TAKE w \in {0, 1}, o \in Objects
  <2>1. o \in Names
    BY DEF Names
  <2>2. \A i : BlockOf(w, i) = BlockAt(heap[w], i)
    BY DEF BlockOf, BlockAt
  <2> QED BY <2>1, <2>2, OwnSet DEF Units
<1>2. \A n \in Prims \cup Works :
        {BlockOf(2, i) : i \in {i \in Units(2) : heap[2].units[i].state = n}} = Own(heap[2], n)
  <2> TAKE n \in Prims \cup Works
  <2>1. n \in Names
    BY DEF Names
  <2>2. \A i : BlockOf(2, i) = BlockAt(heap[2], i)
    BY DEF BlockOf, BlockAt
  <2> QED BY <2>1, <2>2, OwnSet DEF Units
<1>3. DOMAIN block = Prims \cup Works
  OBVIOUS
<1> DEFINE A(w, o) == {BlockOf(w, i) : i \in {i \in Units(w) : heap[w].units[i].state = o}}
           B(n) == {BlockOf(2, i) : i \in {i \in Units(2) : heap[2].units[i].state = n}}
<1>4. \A w \in {0, 1}, o \in Objects : A(w, o) = Own(heap[w], o)
  BY <1>1
<1>5. \A n \in Prims \cup Works : B(n) = Own(heap[2], n)
  BY <1>2
<1>6. PointersRight <=> /\ \A o \in Objects, w \in {0, 1} : A(w, o) = IF packs[o][w] = Null THEN {} ELSE {Read(packs[o][w], o)}
                        /\ \A o \in Objects, w \in {0, 1} : packs[o][w] # Null => o \in Queued /\ codec = "closed"
                        /\ \A n \in DOMAIN block : B(n) = IF block[n] = Null THEN {} ELSE {Read(block[n], n)}
  BY Zenon DEF PointersRight
<1> HIDE DEF A, B
<1> QED BY <1>3, <1>4, <1>5, <1>6 DEF Owned, Has

\* ... and after a step.
LEMMA OwnersNext ==
  ASSUME block' \in [Prims \cup Works -> Nat],
         \A w \in {0, 1} : Owned(packs', heap'[w], w),
         \A o \in Objects, w \in {0, 1} : packs'[o][w] # Null => o \in Queued' /\ codec' = "closed",
         Has(block', heap'[2])
  PROVE  PointersRight'
<1>1. \A w \in {0, 1}, o \in Objects :
        {BlockOf(w, i)' : i \in {i \in Units(w)' : heap'[w].units[i].state = o}} = Own(heap'[w], o)
  <2> TAKE w \in {0, 1}, o \in Objects
  <2>1. o \in Names
    BY DEF Names
  <2>2. \A i : BlockOf(w, i)' = BlockAt(heap'[w], i)
    BY DEF BlockOf, BlockAt
  <2>3. Units(w)' = 1..InUse(heap'[w])
    BY DEF Units
  <2> QED BY <2>1, <2>2, <2>3, OwnSet
<1>2. \A n \in Prims \cup Works :
        {BlockOf(2, i)' : i \in {i \in Units(2)' : heap'[2].units[i].state = n}} = Own(heap'[2], n)
  <2> TAKE n \in Prims \cup Works
  <2>1. n \in Names
    BY DEF Names
  <2>2. \A i : BlockOf(2, i)' = BlockAt(heap'[2], i)
    BY DEF BlockOf, BlockAt
  <2>3. Units(2)' = 1..InUse(heap'[2])
    BY DEF Units
  <2> QED BY <2>1, <2>2, <2>3, OwnSet
<1>3. DOMAIN block' = Prims \cup Works
  OBVIOUS
<1>4. (\A o \in Objects, w \in {0, 1} :
          {BlockOf(w, i) : i \in {i \in Units(w) : heap[w].units[i].state = o}}
            = IF packs[o][w] = Null THEN {} ELSE {Read(packs[o][w], o)})'
  BY <1>1, ZenonT(40) DEF Owned
<1>5. (\A n \in DOMAIN block :
          {BlockOf(2, i) : i \in {i \in Units(2) : heap[2].units[i].state = n}}
            = IF block[n] = Null THEN {} ELSE {Read(block[n], n)})'
  BY <1>2, <1>3 DEF Has
<1>6. (\A o \in Objects, w \in {0, 1} : packs[o][w] # Null => o \in Queued /\ codec = "closed")'
  OBVIOUS
<1> QED BY <1>4, <1>5, <1>6 DEF PointersRight

-----------------------------------------------------------------------------
\* The first n objects of os have been freed of their blocks in heap m, which is now h.
FreedUpto(m, from, to, os, n, h) ==
  /\ h \in Heap /\ h.dynamic = m.dynamic /\ Cut(h.units, from, to) /\ FreeIn(h) = FreeIn(m)
  /\ LiveIn(h) = {b \in LiveIn(m) : \A k \in 1..n : b.by # os[k]}
FreedOne(w, os, n, h) == IF packs[os[n]][w] = Null THEN h ELSE GV_FreeMemory2(h, packs[os[n]][w])

\* One more object is freed of its block, ...
LEMMA FreedStep ==
  ASSUME packs \in Packs, NEW m \in Heap, NEW from \in Nat, NEW to, NEW w \in {0, 1}, Owned(packs, m, w),
         NEW os \in Seq(Objects), IsInjective(os), NEW n \in 1..Len(os), NEW h,
         FreedUpto(m, from, to, os, n - 1, h)
  PROVE  FreedUpto(m, from, to, os, n, FreedOne(w, os, n, h))
<1> DEFINE o == os[n]
           at == packs[o][w]
<1>1. o \in Objects /\ Len(os) \in Nat /\ DOMAIN os = 1..Len(os)
  BY LenProperties, ElementOfSeq
<1>2. \A k \in 1..n - 1 : os[k] # o
  BY <1>1 DEF IsInjective
<1>3. \A k \in 1..n : k \in 1..n - 1 \/ k = n
  BY <1>1
<1>4. \A k \in 1..n - 1 : k \in 1..n
  BY <1>1
<1>5. Own(m, o) = IF at = Null THEN {} ELSE {Read(at, o)}
  BY <1>1 DEF Owned
<1>6. {b \in LiveIn(m) : \A k \in 1..n : b.by # os[k]} = {b \in LiveIn(m) : \A k \in 1..n - 1 : b.by # os[k]} \ Own(m, o)
  BY <1>1, <1>3, <1>4 DEF Own
<1> HIDE DEF o, at
<1>7. CASE at = Null
  <2>1. FreedOne(w, os, n, h) = h
    BY <1>7 DEF FreedOne, at, o
  <2>2. {b \in LiveIn(m) : \A k \in 1..n : b.by # os[k]} = {b \in LiveIn(m) : \A k \in 1..n - 1 : b.by # os[k]}
    BY <1>5, <1>6, <1>7
  <2> QED BY <2>1, <2>2 DEF FreedUpto
<1>8. CASE at # Null
  <2> DEFINE b == Read(at, o)
             x == GV_FreeMemory2(h, at)
  <2>1. FreedOne(w, os, n, h) = x
    BY <1>8 DEF FreedOne, at, o
  <2>2. b \in LiveIn(m) /\ b.by = o /\ b.start = at /\ Own(m, o) = {b}
    <3>1. Own(m, o) = {b}
      BY <1>5, <1>8
    <3>2. b \in Own(m, o)
      BY <3>1
    <3> QED BY <3>1, <3>2 DEF Own, Read
  <2>3. b \in LiveIn(h)
    BY <1>2, <2>2 DEF FreedUpto
  <2> HIDE DEF b
  <2>4. /\ x \in Heap /\ x.dynamic = h.dynamic /\ Cut(x.units, from, to)
        /\ LiveIn(x) = LiveIn(h) \ {b} /\ FreeIn(x) = FreeIn(h)
    <3>1. h \in Heap /\ Cut(h.units, from, to)
      BY DEF FreedUpto
    <3>2. LET y == GV_FreeMemory2(h, b.start) IN
          /\ y \in Heap /\ y.dynamic = h.dynamic /\ Cut(y.units, from, to)
          /\ LiveIn(y) = LiveIn(h) \ {b} /\ FreeIn(y) = FreeIn(h)
      BY <2>3, <3>1, FreeMemory2
    <3> QED BY <2>2, <3>2
  <2> HIDE DEF x
  <2> QED BY <1>6, <2>1, <2>2, <2>4 DEF FreedUpto
<1> QED BY <1>7, <1>8

\* ... and so all are.
LEMMA FreedFacts ==
  ASSUME packs \in Packs, NEW m \in Heap, NEW from \in Nat, NEW to, Cut(m.units, from, to), NEW w \in {0, 1},
         Owned(packs, m, w), NEW os \in Seq(Objects), IsInjective(os)
  PROVE  FreedUpto(m, from, to, os, Len(os), Freed(m, w, os)[Len(os)])
<1> DEFINE N == Len(os)
           step(h, n) == IF packs[os[n]][w] = Null THEN h ELSE GV_FreeMemory2(h, packs[os[n]][w])
           P(s) == s = [n \in 0..N |-> IF n = 0 THEN m ELSE step(s[n - 1], n)]
           T == [n \in 0..N |-> {h \in Heap : FreedUpto(m, from, to, os, n, h)}]
           G == [n \in 1..N |-> [h \in Heap |-> FreedOne(w, os, n, h)]]
<1>1. N \in Nat
  BY LenProperties
<1>2. ASSUME NEW n \in 1..N, NEW h \in T[n - 1]
      PROVE  step(h, n) = FreedOne(w, os, n, h) /\ G[n][h] = step(h, n) /\ step(h, n) \in T[n]
  <2>1. n - 1 \in 0..N /\ n \in 0..N
    BY <1>1
  <2>2. h \in Heap /\ FreedUpto(m, from, to, os, n - 1, h)
    BY <2>1
  <2>3. step(h, n) = FreedOne(w, os, n, h)
    BY DEF FreedOne
  <2>4. FreedUpto(m, from, to, os, n, FreedOne(w, os, n, h))
    BY <1>1, <2>2, FreedStep
  <2>5. FreedOne(w, os, n, h) \in Heap
    BY <2>4 DEF FreedUpto
  <2> HIDE DEF step
  <2> QED BY <2>1, <2>2, <2>3, <2>4, <2>5
<1>3. m \in T[0]
  <2>1. FreedUpto(m, from, to, os, 0, m)
    BY DEF FreedUpto
  <2> QED BY <1>1, <2>1
<1> HIDE DEF step, T, G, P
<1>4. PICK s \in [0..N -> UNION {T[n] : n \in 0..N}] : Follows(s, N, m, T, G)
  <2>1. \A n \in 1..N : \A x \in T[n - 1] : G[n][x] \in T[n]
    BY <1>2
  <2> HIDE DEF N
  <2>2. \E s \in [0..N -> UNION {T[n] : n \in 0..N}] : Follows(s, N, m, T, G)
    BY <1>1, <1>3, <2>1, Graded
  <2> QED BY <2>2
<1>5. P(s)
  <2>1. \A n \in 0..N : s[n] = IF n = 0 THEN m ELSE step(s[n - 1], n)
    <3> TAKE n \in 0..N
    <3>1. s[0] = m
      BY <1>4 DEF Follows
    <3>2. ASSUME n # 0 PROVE s[n] = step(s[n - 1], n)
      <4>1. n \in 1..N /\ n - 1 \in 0..N
        BY <1>1, <3>2
      <4>2. s[n] = G[n][s[n - 1]] /\ s[n - 1] \in T[n - 1]
        BY <1>4, <4>1 DEF Follows
      <4> QED BY <1>2, <4>1, <4>2
    <3> QED BY <3>1, <3>2
  <2>2. s = [n \in 0..N |-> s[n]]
    OBVIOUS
  <2> QED BY <2>1, <2>2, Zenon DEF P
<1>6. Freed(m, w, os) = CHOOSE f : P(f)
  BY Zenon DEF Freed, P, step, N
<1> DEFINE t == Freed(m, w, os)
<1>7. P(t)
  BY <1>5, <1>6, Zenon
<1>8. t = [n \in 0..N |-> IF n = 0 THEN m ELSE step(t[n - 1], n)]
  BY <1>7, Zenon DEF P
<1> HIDE DEF t, N
<1> DEFINE I == {n \in 0..N : t[n] \in T[n]}
<1>9. 0 \in I
  BY <1>1, <1>3, <1>8
<1>10. ASSUME NEW n \in 1..N, n - 1 \in I PROVE n \in I
  <2>1. n \in 0..N /\ n # 0 /\ t[n - 1] \in T[n - 1]
    BY <1>1, <1>10
  <2>2. t[n] = step(t[n - 1], n)
    BY <1>8, <2>1
  <2> QED BY <1>2, <2>1, <2>2
<1>11. \A n \in 0..N : n \in I
  <2> HIDE DEF I
  <2> QED BY <1>1, <1>9, <1>10, UpTo
<1>12. t[N] \in T[N] /\ N \in 0..N
  BY <1>1, <1>11
<1> QED BY <1>12 DEF T, t, N

-----------------------------------------------------------------------------
(* What the building of a list does to its heap. *)

\* n's free blocks are inside those of m, and its others are m's or inside those too.
Grown(m, n) ==
  /\ \A b \in FreeIn(n) : \E c \in FreeIn(m) : Inside(b, c)
  /\ \A b \in LiveIn(n) : b \in LiveIn(m) \/ \E c \in FreeIn(m) : Inside(b, c)

\* A heap that stays has only what it had.
LEMMA GrownSelf == ASSUME NEW m, NEW from \in Nat, NEW to, Cut(m.units, from, to) PROVE Grown(m, m)
<1>1. \A b \in FreeIn(m) : Inside(b, b)
  <2>1. Loose(m.units, from, to)
    BY CutLoose
  <2>2. \A b \in FreeIn(m) : b.start \in Nat /\ b.size \in Nat
    BY <2>1, HeapBlocks
  <2> QED BY <2>2 DEF Inside
<1> QED BY <1>1 DEF Grown

\* Inside goes on.
LEMMA InsideOn == ASSUME NEW a, NEW b, NEW c, a.start \in Nat, a.size \in Nat, b.start \in Nat, b.size \in Nat,
                         c.start \in Nat, c.size \in Nat, Inside(a, b), Inside(b, c)
                  PROVE  Inside(a, c)
BY DEF Inside

\* And so does what grows out of free blocks.
LEMMA GrownOn ==
  ASSUME NEW m, NEW h, NEW n, NEW from \in Nat, NEW to,
         Cut(m.units, from, to), Cut(h.units, from, to), Cut(n.units, from, to), Grown(m, h), Grown(h, n)
  PROVE  Grown(m, n)
<1>1. \A x \in {m, h, n} : \A b \in LiveIn(x) \cup FreeIn(x) : b.start \in Nat /\ b.size \in Nat
  <2> TAKE x \in {m, h, n}
  <2>1. Loose(x.units, from, to)
    BY CutLoose
  <2> QED BY <2>1, HeapBlocks
<1>2. ASSUME NEW b \in LiveIn(n) \cup FreeIn(n), NEW c \in FreeIn(h), Inside(b, c) PROVE \E d \in FreeIn(m) : Inside(b, d)
  <2>1. PICK d \in FreeIn(m) : Inside(c, d)
    BY DEF Grown
  <2> QED BY <1>1, <1>2, <2>1, InsideOn
<1>3. \A b \in FreeIn(n) : \E d \in FreeIn(m) : Inside(b, d)
  BY <1>2 DEF Grown
<1>4. ASSUME NEW b \in LiveIn(n) PROVE b \in LiveIn(m) \/ \E d \in FreeIn(m) : Inside(b, d)
  <2>1. CASE b \in LiveIn(h)
    BY <2>1 DEF Grown
  <2>2. CASE b \notin LiveIn(h)
    <3>1. PICK c \in FreeIn(h) : Inside(b, c)
      BY <2>2 DEF Grown
    <3> QED BY <1>2, <3>1
  <2> QED BY <2>1, <2>2
<1> QED BY <1>3, <1>4 DEF Grown

\* A block that is given was free.
LEMMA GivenGrown == ASSUME NEW m, NEW n, NEW piece, Given(m, n, piece) PROVE Grown(m, n)
BY DEF Given, Grown

\* A block that is taken away was there.
LEMMA FewerGrown ==
  ASSUME NEW m, NEW from \in Nat, NEW to, Cut(m.units, from, to), NEW n, LiveIn(n) \subseteq LiveIn(m), FreeIn(n) = FreeIn(m)
  PROVE  Grown(m, n)
BY GrownSelf DEF Grown

-----------------------------------------------------------------------------
CountsOf(p, c) ==
  \A o \in Objects :
    /\ \A w \in {0, 1} : p[o][w] # Null => c[o] >= 0
    /\ p[o][0] # Null /\ p[o][1] # Null => c[o] >= 1

\* What the bounding of some objects has done to the heap m of the list w that is built.
Bounding == [heap : Heap, packs : Packs, count : [Objects -> -1..FreeCount], seen : SUBSET Objects, shown : SUBSET Objects]
Bound(m, from, to, x) ==
  /\ x \in Bounding
  /\ x.heap.dynamic = m.dynamic /\ Cut(x.heap.units, from, to) /\ Grown(m, x.heap)
  /\ Owned(x.packs, x.heap, clock) /\ CountsOf(x.packs, x.count)
  /\ \A o \in Objects : x.packs[o][1 - clock] = packs[o][1 - clock]
  /\ \A o \in Objects : x.packs[o][clock] # Null => o \in Queued
  /\ x.shown \subseteq x.seen /\ \A o \in x.shown : x.packs[o][clock] # Null

\* Heap m and pointers p have become n and q: object o has now what is at start.
Granted(p, m, from, to, w, o, n, q, start) ==
  /\ n \in Heap /\ n.dynamic = m.dynamic /\ Cut(n.units, from, to)
  /\ Grown(m, n)
  /\ q = [p EXCEPT ![o][w] = start] /\ q \in Packs /\ Owned(q, n, w) /\ q[o][w] = start

\* An object is given a block, or has none and gets none.
LEMMA BoundGiven ==
  ASSUME NEW p \in Packs, NEW m \in Heap, NEW from \in Nat \ {0}, NEW to, Cut(m.units, from, to), NEW w \in {0, 1},
         Owned(p, m, w), NEW o \in Objects, p[o][w] = Null
  PROVE  LET made == GV_AllocMemory2(m, Size[o], o) IN
         Granted(p, m, from, to, w, o, made.heap, [p EXCEPT ![o][w] = made.start], made.start)
<1> DEFINE made == GV_AllocMemory2(m, Size[o], o)
           n == made.heap
           q == [p EXCEPT ![o][w] = made.start]
           piece == [start |-> made.start, size |-> Size[o], by |-> o]
<1>1. Size[o] \in Nat \ {0} /\ o \in Names
  BY FrameAssumption DEF Names
<1>2. /\ n \in Heap /\ n.dynamic = m.dynamic /\ Cut(n.units, from, to) /\ made.start \in Nat
      /\ made.start = Null => LiveIn(n) = LiveIn(m) /\ FreeIn(n) = FreeIn(m)
      /\ made.start # Null => Given(m, n, piece)
  BY <1>1, AllocMemory2
<1> HIDE DEF made, n
<1>3. Grown(m, n)
  BY <1>2, GivenGrown, FewerGrown
<1>4. /\ q \in Packs /\ q[o][w] = made.start
      /\ \A x \in Objects \ {o} : q[x] = p[x]
  BY <1>2 DEF Packs
<1>5. Own(m, o) = {}
  BY DEF Owned
<1> HIDE DEF q
<1>6. Owned(q, n, w)
  <2> SUFFICES ASSUME NEW x \in Objects PROVE Own(n, x) = IF q[x][w] = Null THEN {} ELSE {Read(q[x][w], x)}
    BY DEF Owned
  <2>1. CASE made.start = Null
    <3>1. Own(n, x) = Own(m, x)
      BY <1>2, <2>1 DEF Own
    <3>2. x = o => q[x][w] = Null
      BY <1>4, <2>1
    <3> QED BY <1>4, <1>5, <3>1, <3>2 DEF Owned
  <2>2. CASE made.start # Null
    <3>1. LiveIn(n) = LiveIn(m) \cup {piece}
      BY <1>2, <2>2 DEF Given
    <3>2. CASE x = o
      <4>1. Own(n, x) = {piece}
        BY <1>5, <3>1, <3>2 DEF Own
      <4> QED BY <1>4, <2>2, <3>2, <4>1 DEF Read
    <3>3. CASE x # o
      <4>1. Own(n, x) = Own(m, x)
        BY <3>1, <3>3 DEF Own
      <4> QED BY <1>4, <3>3, <4>1 DEF Owned
    <3> QED BY <3>2, <3>3
  <2> QED BY <2>1, <2>2
<1>7. Granted(p, m, from, to, w, o, n, q, made.start)
  BY <1>2, <1>3, <1>4, <1>6 DEF Granted, q
<1> QED BY <1>7 DEF made, n, q

\* An object is freed of its block.
LEMMA BoundFreed ==
  ASSUME NEW p \in Packs, NEW m \in Heap, NEW from \in Nat, NEW to, Cut(m.units, from, to), NEW w \in {0, 1},
         Owned(p, m, w), NEW o \in Objects, p[o][w] # Null
  PROVE  Granted(p, m, from, to, w, o, GV_FreeMemory2(m, p[o][w]), [p EXCEPT ![o][w] = Null], Null)
<1> DEFINE b == Read(p[o][w], o)
           n == GV_FreeMemory2(m, p[o][w])
           q == [p EXCEPT ![o][w] = Null]
<1>1. Own(m, o) = {b} /\ b \in LiveIn(m) /\ b.start = p[o][w] /\ b.by = o
  <2>1. Own(m, o) = {b}
    BY DEF Owned
  <2>2. b \in Own(m, o)
    BY <2>1
  <2> QED BY <2>1, <2>2 DEF Own, Read
<1> HIDE DEF b
<1>2. /\ n \in Heap /\ n.dynamic = m.dynamic /\ Cut(n.units, from, to)
      /\ LiveIn(n) = LiveIn(m) \ {b} /\ FreeIn(n) = FreeIn(m)
  <2>1. LET y == GV_FreeMemory2(m, b.start) IN
        /\ y \in Heap /\ y.dynamic = m.dynamic /\ Cut(y.units, from, to)
        /\ LiveIn(y) = LiveIn(m) \ {b} /\ FreeIn(y) = FreeIn(m)
    BY <1>1, FreeMemory2
  <2> QED BY <1>1, <2>1
<1> HIDE DEF n
<1>3. Grown(m, n)
  BY <1>2, FewerGrown
<1>4. /\ q \in Packs /\ q[o][w] = Null
      /\ \A x \in Objects \ {o} : q[x] = p[x]
  BY DEF Packs, Null
<1> HIDE DEF q
<1>5. Owned(q, n, w)
  <2> SUFFICES ASSUME NEW x \in Objects PROVE Own(n, x) = IF q[x][w] = Null THEN {} ELSE {Read(q[x][w], x)}
    BY DEF Owned
  <2>1. CASE x = o
    <3>1. Own(n, x) = {}
      BY <1>1, <1>2, <2>1 DEF Own
    <3> QED BY <1>4, <2>1, <3>1
  <2>2. CASE x # o
    <3>1. Own(n, x) = Own(m, x)
      BY <1>1, <1>2, <2>2 DEF Own
    <3> QED BY <1>4, <2>2, <3>1 DEF Owned
  <2> QED BY <2>1, <2>2
<1>6. Granted(p, m, from, to, w, o, n, q, Null)
  BY <1>2, <1>3, <1>4, <1>5 DEF Granted, q
<1> QED BY <1>6 DEF n, q

\* One more object is bound, ...
LEMMA BoundStep ==
  ASSUME packs \in Packs, clock \in {0, 1}, NEW m \in Heap, NEW from \in Nat \ {0}, NEW to, Cut(m.units, from, to),
         NEW x, Bound(m, from, to, x), NEW o \in Objects, o \in Queued
  PROVE  Bound(m, from, to, BoundObj(x, o))
<1> DEFINE at == x.packs[o][clock]
           made == GV_AllocMemory2(x.heap, Size[o], o)
           count == x.count[o] - 1
           y == BoundObj(x, o)
           other == 1 - clock
<1>1. /\ x \in Bounding /\ x.heap \in Heap /\ x.packs \in Packs /\ x.count \in [Objects -> -1..FreeCount]
      /\ x.seen \subseteq Objects /\ x.shown \subseteq Objects
      /\ x.heap.dynamic = m.dynamic /\ Cut(x.heap.units, from, to) /\ Grown(m, x.heap)
      /\ Owned(x.packs, x.heap, clock) /\ CountsOf(x.packs, x.count)
      /\ x = [heap |-> x.heap, packs |-> x.packs, count |-> x.count, seen |-> x.seen, shown |-> x.shown]
      /\ \A z \in Objects : x.packs[z][other] = packs[z][other]
      /\ \A z \in Objects : x.packs[z][clock] # Null => z \in Queued
      /\ x.shown \subseteq x.seen /\ \A z \in x.shown : x.packs[z][clock] # Null
  BY DEF Bound, Bounding
<1>2. FreeCount \in Nat \ {0} /\ other \in {0, 1} /\ other # clock
  BY FrameAssumption
<1>3. CASE o \in x.seen /\ at # Null
  <2>1. y = [x EXCEPT !.count[o] = FreeCount, !.shown = @ \cup {o}]
    BY <1>3 DEF BoundObj
  <2> HIDE DEF y
  <2>2. /\ y.heap = x.heap /\ y.packs = x.packs /\ y.seen = x.seen /\ y.shown = x.shown \cup {o}
        /\ y.count = [x.count EXCEPT ![o] = FreeCount]
        /\ y = [heap |-> y.heap, packs |-> y.packs, count |-> y.count, seen |-> y.seen, shown |-> y.shown]
    BY <1>1, <2>1
  <2>3. y.count \in [Objects -> -1..FreeCount] /\ y.count[o] = FreeCount /\ \A z \in Objects \ {o} : y.count[z] = x.count[z]
    BY <1>1, <1>2, <2>2
  <2>4. CountsOf(y.packs, y.count)
    BY <1>1, <1>2, <2>2, <2>3 DEF CountsOf
  <2>5. y \in Bounding
    BY <1>1, <2>2, <2>3 DEF Bounding
  <2>6. y.shown \subseteq y.seen /\ \A z \in y.shown : y.packs[z][clock] # Null
    BY <1>1, <1>3, <2>2
  <2>20. /\ y.heap.dynamic = m.dynamic /\ Cut(y.heap.units, from, to) /\ Grown(m, y.heap)
         /\ Owned(y.packs, y.heap, clock)
    BY <1>1, <2>2, <2>4, <2>5, <2>6
  <2>21. /\ \A z \in Objects : y.packs[z][1 - clock] = packs[z][1 - clock]
         /\ \A z \in Objects : y.packs[z][clock] # Null => z \in Queued
         /\ y.shown \subseteq y.seen /\ \A z \in y.shown : y.packs[z][clock] # Null
    BY <1>1, <2>2, <2>4, <2>5, <2>6
  <2>22. y \in Bounding /\ CountsOf(y.packs, y.count)
    BY <1>1, <2>2, <2>4, <2>5, <2>6
  <2> HIDE DEF y
  <2> QED BY <2>20, <2>21, <2>22, Zenon DEF Bound, y
<1>4. CASE o \in x.seen /\ at = Null
  <2> DEFINE q == [x.packs EXCEPT ![o][clock] = made.start]
  <2>1. y = [x EXCEPT !.count[o] = FreeCount, !.heap = made.heap, !.packs[o][clock] = made.start,
                      !.shown = IF made.start = Null THEN @ ELSE @ \cup {o}]
    BY <1>4 DEF BoundObj
  <2> HIDE DEF y
  <2>2. /\ y.heap = made.heap /\ y.packs = q /\ y.seen = x.seen
        /\ y.shown = (IF made.start = Null THEN x.shown ELSE x.shown \cup {o})
        /\ y.count = [x.count EXCEPT ![o] = FreeCount]
        /\ y = [heap |-> y.heap, packs |-> y.packs, count |-> y.count, seen |-> y.seen, shown |-> y.shown]
    <3> HIDE DEF made
    <3> QED BY <1>1, <2>1
  <2>3. y.count \in [Objects -> -1..FreeCount] /\ y.count[o] = FreeCount /\ \A z \in Objects \ {o} : y.count[z] = x.count[z]
    BY <1>1, <1>2, <2>2
  <2>4. /\ made.heap \in Heap /\ made.heap.dynamic = x.heap.dynamic /\ Cut(made.heap.units, from, to)
        /\ Grown(x.heap, made.heap)
        /\ q \in Packs /\ Owned(q, made.heap, clock) /\ q[o][clock] = made.start
    <3>1. x.packs \in Packs /\ x.heap \in Heap /\ Cut(x.heap.units, from, to) /\ Owned(x.packs, x.heap, clock)
          /\ x.packs[o][clock] = Null
      BY <1>1, <1>4
    <3>2. Granted(x.packs, x.heap, from, to, clock, o, made.heap, q, made.start)
      BY <3>1, BoundGiven
    <3> QED BY <3>2, Zenon DEF Granted
  <2>5. Grown(m, made.heap)
    BY <1>1, <2>4, GrownOn
  <2>6. \A z \in Objects : q[z][other] = x.packs[z][other] /\ (z # o => q[z] = x.packs[z])
    <3> HIDE DEF made
    <3> QED BY <1>1, <1>2 DEF Packs
  <2> HIDE DEF made, q
  <2>7. CountsOf(y.packs, y.count)
    BY <1>1, <1>2, <2>2, <2>3, <2>6 DEF CountsOf
  <2>8. y \in Bounding
    BY <1>1, <1>4, <2>2, <2>3, <2>4 DEF Bounding
  <2>9. y.shown \subseteq y.seen /\ \A z \in y.shown : y.packs[z][clock] # Null
    BY <1>1, <1>4, <2>2, <2>4, <2>6
  <2>10. \A z \in Objects : q[z][clock] # Null => z \in Queued
    BY <1>1, <2>6
  <2>11. \A z \in Objects : y.packs[z][other] = packs[z][other]
    BY <1>1, <2>2, <2>6
  <2>20. /\ y.heap.dynamic = m.dynamic /\ Cut(y.heap.units, from, to) /\ Grown(m, y.heap)
         /\ Owned(y.packs, y.heap, clock)
    BY <1>1, <2>2, <2>4, <2>5, <2>7, <2>8, <2>9, <2>10, <2>11
  <2>21. /\ \A z \in Objects : y.packs[z][1 - clock] = packs[z][1 - clock]
         /\ \A z \in Objects : y.packs[z][clock] # Null => z \in Queued
         /\ y.shown \subseteq y.seen /\ \A z \in y.shown : y.packs[z][clock] # Null
    BY <1>1, <2>2, <2>4, <2>5, <2>7, <2>8, <2>9, <2>10, <2>11
  <2>22. y \in Bounding /\ CountsOf(y.packs, y.count)
    BY <1>1, <2>2, <2>4, <2>5, <2>7, <2>8, <2>9, <2>10, <2>11
  <2> HIDE DEF y
  <2> QED BY <2>20, <2>21, <2>22, Zenon DEF Bound, y
<1>5. CASE o \notin x.seen /\ at = Null
  <2>1. y = x
    BY <1>5 DEF BoundObj
  <2> QED BY <2>1
<1>6. ASSUME o \notin x.seen, at # Null
      PROVE  /\ count \in -1..FreeCount
             /\ [x.count EXCEPT ![o] = count] \in [Objects -> -1..FreeCount]
             /\ x.packs[o][other] # Null => count >= 0
  <2>1. x.count[o] \in -1..FreeCount /\ x.count[o] >= 0
    BY <1>1, <1>6 DEF CountsOf
  <2>2. count \in -1..FreeCount
    BY <1>2, <2>1
  <2>3. x.packs[o][other] # Null => x.count[o] >= 1
    BY <1>1, <1>2, <1>6 DEF CountsOf
  <2> QED BY <1>1, <2>1, <2>2, <2>3
<1>7. CASE o \notin x.seen /\ at # Null /\ count > 0
  <2>1. y = [x EXCEPT !.count[o] = count]
    BY <1>7 DEF BoundObj
  <2> HIDE DEF y
  <2>2. /\ y.heap = x.heap /\ y.packs = x.packs /\ y.seen = x.seen /\ y.shown = x.shown
        /\ y.count = [x.count EXCEPT ![o] = count]
        /\ y = [heap |-> y.heap, packs |-> y.packs, count |-> y.count, seen |-> y.seen, shown |-> y.shown]
    BY <1>1, <2>1
  <2>3. y.count \in [Objects -> -1..FreeCount] /\ y.count[o] = count /\ \A z \in Objects \ {o} : y.count[z] = x.count[z]
    BY <1>1, <1>6, <1>7, <2>2
  <2>4. CountsOf(y.packs, y.count)
    <3>1. count >= 1 /\ count >= 0
      BY <1>6, <1>7
    <3> HIDE DEF count
    <3> QED BY <1>1, <1>2, <2>2, <2>3, <3>1 DEF CountsOf
  <2>5. y \in Bounding
    BY <1>1, <2>2, <2>3 DEF Bounding
  <2>20. /\ y.heap.dynamic = m.dynamic /\ Cut(y.heap.units, from, to) /\ Grown(m, y.heap)
         /\ Owned(y.packs, y.heap, clock)
    BY <1>1, <2>2, <2>4, <2>5
  <2>21. /\ \A z \in Objects : y.packs[z][1 - clock] = packs[z][1 - clock]
         /\ \A z \in Objects : y.packs[z][clock] # Null => z \in Queued
         /\ y.shown \subseteq y.seen /\ \A z \in y.shown : y.packs[z][clock] # Null
    BY <1>1, <2>2, <2>4, <2>5
  <2>22. y \in Bounding /\ CountsOf(y.packs, y.count)
    BY <1>1, <2>2, <2>4, <2>5
  <2> HIDE DEF y
  <2> QED BY <2>20, <2>21, <2>22, Zenon DEF Bound, y
<1>8. CASE o \notin x.seen /\ at # Null /\ ~(count > 0)
  <2> DEFINE q == [x.packs EXCEPT ![o][clock] = Null]
             h == GV_FreeMemory2(x.heap, at)
  <2>1. y = [x EXCEPT !.count[o] = count, !.heap = GV_FreeMemory2(@, at), !.packs[o][clock] = Null]
    BY <1>8 DEF BoundObj
  <2> HIDE DEF y
  <2>2. /\ y.heap = h /\ y.packs = q /\ y.seen = x.seen /\ y.shown = x.shown
        /\ y.count = [x.count EXCEPT ![o] = count]
        /\ y = [heap |-> y.heap, packs |-> y.packs, count |-> y.count, seen |-> y.seen, shown |-> y.shown]
    BY <1>1, <2>1
  <2>3. y.count \in [Objects -> -1..FreeCount] /\ y.count[o] = count /\ \A z \in Objects \ {o} : y.count[z] = x.count[z]
    BY <1>1, <1>6, <1>8, <2>2
  <2>4. /\ h \in Heap /\ h.dynamic = x.heap.dynamic /\ Cut(h.units, from, to)
        /\ Grown(x.heap, h)
        /\ q \in Packs /\ Owned(q, h, clock) /\ q[o][clock] = Null
    <3>1. x.packs \in Packs /\ x.heap \in Heap /\ Cut(x.heap.units, from, to) /\ Owned(x.packs, x.heap, clock)
          /\ x.packs[o][clock] # Null
      BY <1>1, <1>8
    <3>2. Granted(x.packs, x.heap, from, to, clock, o, h, q, Null)
      BY <3>1, BoundFreed
    <3> QED BY <3>2, Zenon DEF Granted
  <2>5. Grown(m, h)
    BY <1>1, <2>4, GrownOn
  <2>6. \A z \in Objects : q[z][other] = x.packs[z][other] /\ (z # o => q[z] = x.packs[z])
    BY <1>1, <1>2 DEF Packs
  <2>7. x.packs[o][other] # Null => count >= 0
    BY <1>6, <1>8
  <2> HIDE DEF h, q, count
  <2>8. CountsOf(y.packs, y.count)
    <3>1. ASSUME NEW z \in Objects
          PROVE  /\ \A w \in {0, 1} : y.packs[z][w] # Null => y.count[z] >= 0
                 /\ ~(y.packs[z][0] # Null /\ y.packs[z][1] # Null) \/ y.count[z] >= 1
      <4>1. CASE z = o
        BY <1>2, <2>2, <2>3, <2>4, <2>6, <2>7, <4>1
      <4>2. CASE z # o
        BY <1>1, <2>2, <2>3, <2>6, <4>2 DEF CountsOf
      <4> QED BY <4>1, <4>2
    <3> QED BY <3>1 DEF CountsOf
  <2>9. y \in Bounding
    BY <1>1, <2>2, <2>3, <2>4 DEF Bounding
  <2>10. y.shown \subseteq y.seen /\ \A z \in y.shown : y.packs[z][clock] # Null
    BY <1>1, <1>8, <2>2, <2>6
  <2>11. \A z \in Objects : q[z][clock] # Null => z \in Queued
    BY <1>1, <2>4, <2>6
  <2>12. \A z \in Objects : y.packs[z][other] = packs[z][other]
    BY <1>1, <2>2, <2>6
  <2>20. /\ y.heap.dynamic = m.dynamic /\ Cut(y.heap.units, from, to) /\ Grown(m, y.heap)
         /\ Owned(y.packs, y.heap, clock)
    BY <1>1, <2>2, <2>4, <2>5, <2>8, <2>9, <2>10, <2>11, <2>12
  <2>21. /\ \A z \in Objects : y.packs[z][1 - clock] = packs[z][1 - clock]
         /\ \A z \in Objects : y.packs[z][clock] # Null => z \in Queued
         /\ y.shown \subseteq y.seen /\ \A z \in y.shown : y.packs[z][clock] # Null
    BY <1>1, <2>2, <2>4, <2>5, <2>8, <2>9, <2>10, <2>11, <2>12
  <2>22. y \in Bounding /\ CountsOf(y.packs, y.count)
    BY <1>1, <2>2, <2>4, <2>5, <2>8, <2>9, <2>10, <2>11, <2>12
  <2> HIDE DEF y
  <2> QED BY <2>20, <2>21, <2>22, Zenon DEF Bound, y
<1> QED BY <1>3, <1>4, <1>5, <1>7, <1>8

\* ... and so the whole queue is.
LEMMA BoundFacts ==
  ASSUME packs \in Packs, clock \in {0, 1}, NEW m \in Heap, NEW from \in Nat \ {0}, NEW to, Cut(m.units, from, to),
         queue \in Seq(Objects), NEW x, Bound(m, from, to, x)
  PROVE  Bound(m, from, to, BoundObjs(x)[Len(queue)]) /\ (queue = << >> => BoundObjs(x)[Len(queue)] = x)
<1> DEFINE N == Len(queue)
           P(s) == s = [n \in 0..N |-> IF n = 0 THEN x ELSE BoundObj(s[n - 1], queue[n])]
           B == {y \in Bounding : Bound(m, from, to, y)}
           T == [n \in 0..N |-> B]
           G == [n \in 1..N |-> [y \in B |-> BoundObj(y, queue[n])]]
<1>1. N \in Nat /\ (queue = << >> => N = 0)
  BY LenProperties
<1>2. ASSUME NEW n \in 1..N, NEW y \in B PROVE BoundObj(y, queue[n]) \in B
  <2>1. queue[n] \in Objects /\ queue[n] \in Queued
    BY ElementOfSeq, LenProperties DEF Queued
  <2>2. Bound(m, from, to, BoundObj(y, queue[n]))
    BY <2>1, BoundStep
  <2> QED BY <2>2 DEF Bound
<1>3. x \in B
  BY DEF Bound
<1> HIDE DEF B, P
<1>4. (\A n \in 0..N : T[n] = B) /\ x \in T[0] /\ (\A n \in 1..N : \A y \in T[n - 1] : G[n][y] = BoundObj(y, queue[n]) /\ G[n][y] \in T[n])
  <2>1. \A n \in 0..N : T[n] = B
    OBVIOUS
  <2>2. 0 \in 0..N
    BY <1>1
  <2>3. ASSUME NEW n \in 1..N, NEW y \in T[n - 1] PROVE G[n][y] = BoundObj(y, queue[n]) /\ G[n][y] \in T[n]
    <3>1. n - 1 \in 0..N /\ n \in 0..N
      BY <1>1
    <3>2. y \in B
      BY <2>1, <3>1
    <3> QED BY <1>2, <2>1, <3>1, <3>2
  <2> HIDE DEF T, G
  <2> QED BY <1>3, <2>1, <2>2, <2>3
<1> HIDE DEF T, G
<1>5. PICK s \in [0..N -> UNION {T[n] : n \in 0..N}] : Follows(s, N, x, T, G)
  <2>1. \A n \in 1..N : \A y \in T[n - 1] : G[n][y] \in T[n]
    BY <1>4
  <2> HIDE DEF N
  <2>2. \E s \in [0..N -> UNION {T[n] : n \in 0..N}] : Follows(s, N, x, T, G)
    BY <1>1, <1>4, <2>1, Graded
  <2> QED BY <2>2
<1>6. P(s)
  <2>1. \A n \in 0..N : s[n] = IF n = 0 THEN x ELSE BoundObj(s[n - 1], queue[n])
    <3> TAKE n \in 0..N
    <3>1. s[0] = x
      BY <1>5 DEF Follows
    <3>2. ASSUME n # 0 PROVE s[n] = BoundObj(s[n - 1], queue[n])
      <4>1. n \in 1..N /\ n - 1 \in 0..N
        BY <1>1, <3>2
      <4>2. s[n] = G[n][s[n - 1]] /\ s[n - 1] \in T[n - 1]
        BY <1>5, <4>1 DEF Follows
      <4> QED BY <1>4, <4>1, <4>2
    <3> QED BY <3>1, <3>2
  <2>2. s = [n \in 0..N |-> s[n]]
    OBVIOUS
  <2> QED BY <2>1, <2>2, Zenon DEF P
<1>7. BoundObjs(x) = CHOOSE f : P(f)
  BY Zenon DEF BoundObjs, P, N
<1> DEFINE t == BoundObjs(x)
<1>8. P(t)
  BY <1>6, <1>7, Zenon
<1>9. t = [n \in 0..N |-> IF n = 0 THEN x ELSE BoundObj(t[n - 1], queue[n])]
  BY <1>8, Zenon DEF P
<1> HIDE DEF t, N
<1> DEFINE I == {n \in 0..N : t[n] \in B}
<1>10. t[0] = x /\ 0 \in I
  BY <1>1, <1>3, <1>9
<1>11. ASSUME NEW n \in 1..N, n - 1 \in I PROVE n \in I
  <2>1. n \in 0..N /\ n # 0 /\ t[n - 1] \in B
    BY <1>1, <1>11
  <2>2. t[n] = BoundObj(t[n - 1], queue[n])
    BY <1>9, <2>1
  <2> QED BY <1>2, <2>1, <2>2
<1>12. \A n \in 0..N : n \in I
  <2> HIDE DEF I
  <2> QED BY <1>1, <1>10, <1>11, UpTo
<1>13. t[N] \in B
  BY <1>1, <1>12
<1> QED BY <1>1, <1>10, <1>13 DEF B, t, N

-----------------------------------------------------------------------------
(* The state: the heaps, what the GPU reads, what stays. *)

\* Where the heaps begin.
LEMMA BaseFacts ==
  /\ PackSize \in Nat \ {0} /\ NormalSize \in Nat \ {0} /\ FreeCount \in Nat \ {0} /\ MaxUndraw \in Nat \ {0}
  /\ Base(0) = 1 /\ Base(1) = 1 + PackSize /\ Base(2) = 1 + 2 * PackSize
  /\ \A h \in {0, 1, 2} : Base(h) \in Nat \ {0}
<1>1. PackSize \in Nat \ {0} /\ NormalSize \in Nat \ {0} /\ FreeCount \in Nat \ {0} /\ MaxUndraw \in Nat \ {0}
  BY FrameAssumption
<1>2. Base(0) = 1 /\ Base(1) = 1 + PackSize /\ Base(2) = 1 + 2 * PackSize
  BY DEF Base
<1> QED BY <1>1, <1>2

\* The queue by its elements.
LEMMA QueuedFacts ==
  ASSUME NEW q \in Seq(Objects)
  PROVE  /\ DOMAIN q = 1..Len(q) /\ Len(q) \in Nat
         /\ \A o : Contains(q, o) <=> \E i \in DOMAIN q : q[i] = o
         /\ \A i \in DOMAIN q : q[i] \in Objects
         /\ Range(q) = {q[i] : i \in DOMAIN q}
BY LenProperties, ElementOfSeq DEF Contains, Range

\* What a heap's range is.
To(h, cd) == IF h = 2 THEN Base(2) + NormalSize ELSE IF cd = "closed" THEN Base(h) + PackSize ELSE Base(0) + 2 * PackSize

\* The heaps, each in its range.
LEMMA MemoryFacts ==
  ASSUME Memory
  PROVE  /\ \A h \in {0, 1, 2} : heap[h] \in Heap
         /\ \A h \in {0, 1, 2} : Base(h) \in Nat \ {0} /\ To(h, codec) \in Nat
         /\ \A h \in {0, 1, 2} : codec = "closed" \/ h # 1 => Cut(heap[h].units, Base(h), To(h, codec))
         /\ codec # "closed" => heap[1] = NoHeap
         /\ ~heap[2].dynamic /\ (codec # "closed" => ~heap[0].dynamic)
<1>1. \A h \in {0, 1, 2} : heap[h] \in Heap
  BY DEF Memory
<1>2. \A h \in {0, 1, 2} : Base(h) \in Nat \ {0} /\ To(h, codec) \in Nat
  BY BaseFacts DEF To
<1>3. ASSUME NEW h \in {0, 1, 2}, codec = "closed" \/ h # 1 PROVE Cut(heap[h].units, Base(h), To(h, codec))
  BY <1>3 DEF Memory, To
<1> QED BY <1>1, <1>2, <1>3 DEF Memory, NoHeap

\* Their blocks, also of different heaps, lie apart.
LEMMA MemoryBlocks ==
  ASSUME Memory
  PROVE  /\ \A h \in {0, 1, 2} : \A b \in LiveIn(heap[h]) :
              b.start \in Nat \ {0} /\ b.size \in Nat \ {0} /\ b.by \in Names /\ b = [start |-> b.start, size |-> b.size, by |-> b.by]
         /\ \A h \in {0, 1, 2} : \A b \in LiveIn(heap[h]) \cup FreeIn(heap[h]) : b.start \in Nat /\ b.size \in Nat
         /\ codec = "closed" =>
              \A h \in {0, 1, 2} : \A b \in LiveIn(heap[h]) \cup FreeIn(heap[h]) :
                b.start \in Nat \ {0} /\ b.size \in Nat \ {0} /\ Base(h) <= b.start /\ b.start + b.size <= To(h, codec)
         /\ \A h \in {0, 1, 2} : \A b, c \in LiveIn(heap[h]) \cup FreeIn(heap[h]) : Overlap(b, c) => b = c
         /\ \A h, k \in {0, 1, 2} : h # k =>
              \A b \in LiveIn(heap[h]) \cup FreeIn(heap[h]), c \in LiveIn(heap[k]) \cup FreeIn(heap[k]) : ~Overlap(b, c)
<1>1. ASSUME NEW h \in {0, 1, 2}, codec = "closed" \/ h # 1
      PROVE  /\ \A b \in LiveIn(heap[h]) \cup FreeIn(heap[h]) :
                  b.start \in Nat /\ b.start \in Nat \ {0} /\ b.size \in Nat \ {0} /\ Base(h) <= b.start /\ b.start + b.size <= To(h, codec)
             /\ \A b \in LiveIn(heap[h]) : b.by \in Names /\ b = [start |-> b.start, size |-> b.size, by |-> b.by]
             /\ \A b, c \in LiveIn(heap[h]) \cup FreeIn(heap[h]) : Overlap(b, c) => b = c
  <2>1. Loose(heap[h].units, Base(h), To(h, codec)) /\ Base(h) \in Nat /\ Base(h) \in Nat \ {0}
    BY <1>1, MemoryFacts, CutLoose
  <2>2. \A b \in LiveIn(heap[h]) \cup FreeIn(heap[h]) :
          b.start \in Nat /\ b.size \in Nat \ {0} /\ Base(h) <= b.start /\ b.start + b.size <= To(h, codec)
    BY <2>1, HeapBlocks
  <2>3. /\ \A b \in LiveIn(heap[h]) : b.by \in Names /\ b = [start |-> b.start, size |-> b.size, by |-> b.by]
        /\ \A b, c \in LiveIn(heap[h]) \cup FreeIn(heap[h]) : Overlap(b, c) => b = c
    BY <2>1, HeapBlocks
  <2>4. \A b \in LiveIn(heap[h]) \cup FreeIn(heap[h]) : b.start \in Nat \ {0}
    BY <2>1, <2>2
  <2> QED BY <2>2, <2>3, <2>4
<1>2. ASSUME codec # "closed"
      PROVE  /\ LiveIn(heap[1]) = {}
             /\ \A b \in FreeIn(heap[1]) : b = [start |-> 0, size |-> 0, by |-> "free"] /\ b.start = 0 /\ b.size = 0
  BY <1>2, MemoryFacts, NoHeapFacts
<1>3. ASSUME NEW h \in {0, 1, 2}
      PROVE  /\ \A b \in LiveIn(heap[h]) :
                  b.start \in Nat \ {0} /\ b.size \in Nat \ {0} /\ b.by \in Names /\ b = [start |-> b.start, size |-> b.size, by |-> b.by]
             /\ \A b \in LiveIn(heap[h]) \cup FreeIn(heap[h]) : b.start \in Nat /\ b.size \in Nat
             /\ \A b, c \in LiveIn(heap[h]) \cup FreeIn(heap[h]) : Overlap(b, c) => b = c
  <2>1. CASE codec = "closed" \/ h # 1
    BY <1>1, <2>1
  <2>2. CASE codec # "closed" /\ h = 1
    BY <1>2, <2>2
  <2> QED BY <2>1, <2>2
<1>4. ASSUME NEW h \in {0, 1, 2}, NEW k \in {0, 1, 2}, h < k,
             NEW b \in LiveIn(heap[h]) \cup FreeIn(heap[h]), NEW c \in LiveIn(heap[k]) \cup FreeIn(heap[k])
      PROVE  ~Overlap(b, c) /\ ~Overlap(c, b)
  <2>1. b.start \in Nat /\ b.size \in Nat /\ c.start \in Nat /\ c.size \in Nat
    BY <1>3
  <2>2. CASE codec = "closed" \/ (h # 1 /\ k # 1)
    <3>1. b.start + b.size <= To(h, codec) /\ Base(k) <= c.start /\ c.size \in Nat \ {0} /\ b.size \in Nat \ {0}
      BY <1>1, <2>2
    <3>2. To(h, codec) <= Base(k) /\ To(h, codec) \in Nat /\ Base(k) \in Nat
      BY <1>4, <2>2, BaseFacts DEF To
    <3> QED BY <2>1, <3>1, <3>2 DEF Overlap
  <2>3. CASE codec # "closed" /\ h = 1
    <3>1. b.start = 0 /\ b.size = 0
      BY <1>2, <2>3
    <3> QED BY <2>1, <3>1 DEF Overlap
  <2>4. CASE codec # "closed" /\ k = 1
    <3>1. c.start = 0 /\ c.size = 0
      BY <1>2, <2>4
    <3> QED BY <2>1, <3>1 DEF Overlap
  <2> QED BY <2>2, <2>3, <2>4
<1>5. \A h, k \in {0, 1, 2} : h # k =>
        \A b \in LiveIn(heap[h]) \cup FreeIn(heap[h]), c \in LiveIn(heap[k]) \cup FreeIn(heap[k]) : ~Overlap(b, c)
  <2> TAKE h, k \in {0, 1, 2}
  <2> HAVE h # k
  <2> TAKE b \in LiveIn(heap[h]) \cup FreeIn(heap[h]), c \in LiveIn(heap[k]) \cup FreeIn(heap[k])
  <2>1. h < k \/ k < h
    OBVIOUS
  <2> QED BY <1>4, <2>1
<1> QED BY <1>1, <1>3, <1>5

-----------------------------------------------------------------------------
\* What of a heap the GPU reads.
ReadsOf(g, m, h, cd, ck) ==
  \A r \in g :
    /\ \A b \in LiveIn(m) : Overlap(r, b) => b = r \/ (cd = "opened" /\ h # 2 /\ b.by \in {"codec", "face"})
    /\ \A b \in FreeIn(m) : Overlap(r, b) => (cd = "opened" /\ h # 2) \/ (cd = "closed" /\ h = 1 - ck)
Away(g, ck) == \A r \in g : r.start + r.size <= Base(ck) \/ Base(ck) + PackSize <= r.start

\* What the GPU reads, heap by heap, ...
LEMMA ReadsParts ==
  /\ Reads <=> (\A h \in {0, 1, 2} : ReadsOf(gpu, heap[h], h, codec, clock)) /\ (late /\ codec = "closed" => Away(gpu, clock))
BY DEF Reads, ReadsOf, Away

\* ... and after a step.
LEMMA ReadsNext ==
  ASSUME \A h \in {0, 1, 2} : ReadsOf(gpu', heap'[h], h, codec', clock'), late' /\ codec' = "closed" => Away(gpu', clock')
  PROVE  Reads'
BY DEF Reads, ReadsOf, Away

\* It reads nothing.
LEMMA NoReads == ASSUME gpu' = {} PROVE Reads'
BY DEF Reads

\* What overlaps a part overlaps the whole.
LEMMA OverlapInside ==
  ASSUME NEW r, NEW b, NEW c, r.start \in Nat, r.size \in Nat, b.start \in Nat, b.size \in Nat, c.start \in Nat, c.size \in Nat,
         Overlap(r, b), Inside(b, c)
  PROVE  Overlap(r, c)
BY DEF Overlap, Inside

\* Where nothing free is read, what is made of the free blocks is not read either.
LEMMA GrownReads ==
  ASSUME NEW g \in SUBSET Piece, NEW m, NEW n, NEW from \in Nat, NEW to, Cut(m.units, from, to), Cut(n.units, from, to),
         NEW h, NEW cd, NEW ck, ReadsOf(g, m, h, cd, ck), Grown(m, n), ~(cd = "opened" /\ h # 2), ~(cd = "closed" /\ h = 1 - ck)
  PROVE  ReadsOf(g, n, h, cd, ck)
<1>1. \A x \in {m, n} : \A b \in LiveIn(x) \cup FreeIn(x) : b.start \in Nat /\ b.size \in Nat
  <2> TAKE x \in {m, n}
  <2>1. Loose(x.units, from, to)
    BY CutLoose
  <2> QED BY <2>1, HeapBlocks
<1>2. ASSUME NEW r \in g, NEW b \in LiveIn(n) \cup FreeIn(n), Overlap(r, b), NEW c \in FreeIn(m), Inside(b, c) PROVE FALSE
  <2>1. r.start \in Nat /\ r.size \in Nat
    BY DEF Piece
  <2>2. Overlap(r, c)
    BY <1>1, <1>2, <2>1, OverlapInside
  <2> QED BY <2>2 DEF ReadsOf
<1>3. ASSUME NEW r \in g, NEW b \in LiveIn(n), Overlap(r, b) PROVE b = r
  <2>1. b \in LiveIn(m)
    BY <1>2, <1>3 DEF Grown
  <2> QED BY <1>3, <2>1 DEF ReadsOf
<1>4. ASSUME NEW r \in g, NEW b \in FreeIn(n), Overlap(r, b) PROVE FALSE
  BY <1>2, <1>4 DEF Grown
<1> QED BY <1>3, <1>4 DEF ReadsOf

\* What has been freed, and not made free, is read by nobody else.
LEMMA FewerReads ==
  ASSUME NEW g, NEW m, NEW n, NEW h, NEW cd, NEW ck, ReadsOf(g, m, h, cd, ck), LiveIn(n) \subseteq LiveIn(m), FreeIn(n) = FreeIn(m)
  PROVE  ReadsOf(g, n, h, cd, ck)
BY DEF ReadsOf

-----------------------------------------------------------------------------
\* What stays as it is if nothing that it is about changes.
LEMMA KeepMemory == ASSUME Memory, heap' = heap, codec' = codec PROVE Memory'
BY DEF Memory

\* As above, for what the GPU reads.
LEMMA KeepReads == ASSUME Reads, heap' = heap, codec' = codec, gpu' = gpu, late' = late, clock' = clock PROVE Reads'
BY DEF Reads

\* As above, for the pointers.
LEMMA KeepPointers ==
  ASSUME PointersRight, block \in [Prims \cup Works -> Nat], heap' = heap, packs' = packs, block' = block, codec' = codec, Queued \subseteq Queued'
  PROVE  PointersRight'
BY Owners, OwnersNext

\* As above, for the counts.
LEMMA KeepCounts == ASSUME Counts, packs' = packs, freeCount' = freeCount PROVE Counts'
BY DEF Counts

\* Frees of objects' packets.
LEMMA FreePacketsFacts ==
  ASSUME IInv, codec = "closed", NEW os \in Seq(Objects), IsInjective(os)
  PROVE  /\ FreePackets(heap, os)[2] = heap[2] /\ FreePackets(heap, os) \in [{0, 1, 2} -> Heap]
         /\ \A w \in {0, 1} : FreedUpto(heap[w], Base(w), Base(w) + PackSize, os, Len(os), FreePackets(heap, os)[w])
         /\ \A o \in Objects, w \in {0, 1} : Unpacked(os)[o][w] = IF o \in Range(os) THEN Null ELSE packs[o][w]
         /\ Unpacked(os) \in Packs
<1>1. heap \in [{0, 1, 2} -> Heap] /\ (\A w \in {0, 1} : Cut(heap[w].units, Base(w), Base(w) + PackSize))
      /\ packs \in Packs /\ block \in [Prims \cup Works -> Nat]
  BY DEF IInv, Memory, Typed, Packs
<1>2. \A w \in {0, 1} : Owned(packs, heap[w], w)
  BY <1>1, Owners DEF IInv
<1>3. ASSUME NEW w \in {0, 1}
      PROVE  /\ FreedUpto(heap[w], Base(w), Base(w) + PackSize, os, Len(os), Freed(heap[w], w, os)[Len(os)])
             /\ Freed(heap[w], w, os)[Len(os)] \in Heap
  <2>1. Base(w) \in Nat /\ heap[w] \in Heap
    BY <1>1, BaseFacts
  <2>2. FreedUpto(heap[w], Base(w), Base(w) + PackSize, os, Len(os), Freed(heap[w], w, os)[Len(os)])
    BY <1>1, <1>2, <2>1, FreedFacts
  <2> QED BY <2>2 DEF FreedUpto
<1>4. /\ FreePackets(heap, os)[2] = heap[2] /\ FreePackets(heap, os) \in [{0, 1, 2} -> Heap]
      /\ \A w \in {0, 1} : FreePackets(heap, os)[w] = Freed(heap[w], w, os)[Len(os)]
  BY <1>1, <1>3 DEF FreePackets
<1>5. \A o \in Objects, w \in {0, 1} : Unpacked(os)[o][w] = IF o \in Range(os) THEN Null ELSE packs[o][w]
  BY DEF Unpacked
<1>6. Unpacked(os) \in Packs
  BY <1>1 DEF Unpacked, Packs, Null
<1> QED BY <1>3, <1>4, <1>5, <1>6

\* The objects of os give back their packets, and may leave the channel.
LEMMA FreedPackets ==
  ASSUME IInv, codec = "closed", NEW os \in Seq(Objects), IsInjective(os),
         heap' = FreePackets(heap, os), packs' = Unpacked(os), block' = block, codec' = codec,
         gpu' = gpu, late' = late, clock' = clock, \A o \in Queued : o \in Queued' \/ o \in Range(os),
         \A o \in Objects : freeCount'[o] = freeCount[o] \/ o \in Range(os)
  PROVE  Memory' /\ PointersRight' /\ Counts' /\ Reads' /\ packs' \in Packs
<1> DEFINE n == FreePackets(heap, os)
<1>1. /\ n[2] = heap[2] /\ n \in [{0, 1, 2} -> Heap]
      /\ \A w \in {0, 1} : FreedUpto(heap[w], Base(w), Base(w) + PackSize, os, Len(os), n[w])
      /\ \A o \in Objects, w \in {0, 1} : packs'[o][w] = IF o \in Range(os) THEN Null ELSE packs[o][w]
      /\ packs' \in Packs
  BY FreePacketsFacts
<1> HIDE DEF n
<1>2. heap' = n
  BY DEF n
<1>3. Memory /\ PointersRight /\ Counts /\ Reads /\ block \in [Prims \cup Works -> Nat]
  BY DEF IInv, Typed
<1>4. Memory'
  <2>1. \A w \in {0, 1} : Cut(heap'[w].units, Base(w), Base(w) + PackSize)
    BY <1>1, <1>2 DEF FreedUpto
  <2>2. heap' \in [{0, 1, 2} -> Heap] /\ heap'[2] = heap[2]
    BY <1>1, <1>2
  <2> QED BY <1>3, <2>1, <2>2 DEF Memory
<1>5. /\ \A w \in {0, 1} : Owned(packs, heap[w], w)
      /\ \A o \in Objects, w \in {0, 1} : packs[o][w] # Null => o \in Queued /\ codec = "closed"
      /\ Has(block, heap[2])
  BY <1>3, Owners
<1>6. ASSUME NEW w \in {0, 1} PROVE Owned(packs', heap'[w], w)
  <2>1. LiveIn(n[w]) = {b \in LiveIn(heap[w]) : \A k \in 1..Len(os) : b.by # os[k]}
    BY <1>1 DEF FreedUpto
  <2>2. \A o : o \in Range(os) <=> \E k \in 1..Len(os) : os[k] = o
    BY QueuedFacts
  <2> SUFFICES ASSUME NEW o \in Objects PROVE Own(n[w], o) = IF packs'[o][w] = Null THEN {} ELSE {Read(packs'[o][w], o)}
    BY <1>2 DEF Owned
  <2>3. CASE o \in Range(os)
    <3>1. Own(n[w], o) = {}
      BY <2>1, <2>2, <2>3 DEF Own
    <3> QED BY <1>1, <2>3, <3>1
  <2>4. CASE o \notin Range(os)
    <3>1. Own(n[w], o) = Own(heap[w], o)
      BY <2>1, <2>2, <2>4 DEF Own
    <3>2. packs'[o][w] = packs[o][w]
      BY <1>1, <2>4
    <3> QED BY <1>5, <3>1, <3>2 DEF Owned
  <2> QED BY <2>3, <2>4
<1>7. PointersRight'
  <2>1. \A o \in Objects, w \in {0, 1} : packs'[o][w] # Null => o \in Queued' /\ codec' = "closed"
    BY <1>1, <1>5
  <2>2. Has(block', heap'[2]) /\ block' \in [Prims \cup Works -> Nat]
    BY <1>1, <1>2, <1>3, <1>5
  <2> QED BY <1>6, <2>1, <2>2, OwnersNext
<1>8. Counts'
  <2> SUFFICES ASSUME NEW o \in Objects
               PROVE  /\ \A w \in {0, 1} : packs'[o][w] # Null => freeCount'[o] >= 0
                      /\ packs'[o][0] # Null /\ packs'[o][1] # Null => freeCount'[o] >= 1
    BY DEF Counts
  <2>1. CASE o \in Range(os)
    BY <1>1, <2>1
  <2>2. CASE o \notin Range(os)
    BY <1>1, <1>3, <2>2 DEF Counts
  <2> QED BY <2>1, <2>2
<1>9. Reads'
  <2>1. \A h \in {0, 1, 2} : ReadsOf(gpu, heap[h], h, codec, clock)
    BY <1>3, ReadsParts
  <2>2. \A h \in {0, 1, 2} : LiveIn(heap'[h]) \subseteq LiveIn(heap[h]) /\ FreeIn(heap'[h]) = FreeIn(heap[h])
    BY <1>1, <1>2 DEF FreedUpto
  <2>3. \A h \in {0, 1, 2} : ReadsOf(gpu', heap'[h], h, codec', clock')
    BY <2>1, <2>2, FewerReads
  <2>4. late' /\ codec' = "closed" => Away(gpu', clock')
    BY <1>3, ReadsParts
  <2> QED BY <2>3, <2>4, ReadsNext
<1> QED BY <1>1, <1>4, <1>7, <1>8, <1>9

-----------------------------------------------------------------------------
(* The steps of the actors. *)

\* Only between two frames is there a list just built.
LEMMA NotBuilt == ASSUME phase' = "game" PROVE Built'
BY DEF Built

\* DG_MakeObjs puts an object without packets into the channel.
LEMMA MakeObjsInv == ASSUME IInv, NEW o \in Objects, MakeObjs(o) PROVE IInv'
<1>1. /\ phase = "game" /\ codec = "closed" /\ stage = "play" /\ o \notin Queued /\ ~stopped
      /\ queue' = Append(queue, o) /\ freeCount' = [freeCount EXCEPT ![o] = 0]
      /\ UNCHANGED <<heap, packs, block, gvars, lists, frame, mode, undraw, phase>>
  BY DEF MakeObjs, Making, ActorsRun, Paused
<1>2. queue' \in Seq(Objects) /\ IsInjective(queue') /\ Queued' \subseteq Objects /\ Queued \subseteq Queued'
  <2>1. queue \in Seq(Objects) /\ IsInjective(queue) /\ ~Contains(queue, o)
    BY <1>1, QueuedFacts DEF IInv, Typed, Queued
  <2>2. queue' \in Seq(Objects) /\ IsInjective(queue') /\ \A x : Contains(queue', x) <=> Contains(queue, x) \/ x = o
    BY <1>1, <2>1, AppendQueue
  <2>3. \A x \in Queued : x \in Queued'
    <3>1. \A x : x \in Queued <=> Contains(queue, x)
      BY <2>1, QueuedFacts DEF Queued
    <3>2. \A x : x \in Queued' <=> Contains(queue', x)
      BY <2>2, QueuedFacts DEF Queued
    <3> QED BY <2>2, <3>1, <3>2
  <2>4. Queued' \subseteq Objects
    BY <2>2, QueuedFacts DEF Queued
  <2> QED BY <2>2, <2>3, <2>4
<1>3. packs[o][0] = Null /\ packs[o][1] = Null
  BY <1>1 DEF IInv, PointersRight
<1>4. Counts'
  BY <1>1, <1>3 DEF IInv, Counts, TypeOK
<1>5. TypeOK' /\ Typed'
  <2>1. freeCount' \in [Objects -> -1..FreeCount]
    BY <1>1, BaseFacts DEF IInv, TypeOK
  <2> QED BY <1>1, <1>2, <2>1 DEF IInv, TypeOK, Typed, gvars, lists, frame, mode
<1>6. Memory' /\ Reads' /\ PointersRight'
  BY <1>1, <1>2, KeepMemory, KeepReads, KeepPointers DEF IInv, Typed, gvars, frame, mode
<1>7. Modes' /\ Ended' /\ Built'
  BY <1>1, NotBuilt DEF IInv, Modes, Ended, gvars, lists, frame, mode
<1> QED BY <1>4, <1>5, <1>6, <1>7 DEF IInv

\* DG_DequeueObjs takes one object out of the queue.
LEMMA WithoutFacts ==
  ASSUME NEW q \in Seq(Objects), IsInjective(q), NEW o
  PROVE  /\ Without(q, o) \in Seq(Objects) /\ IsInjective(Without(q, o))
         /\ \A x : Contains(Without(q, o), x) <=> Contains(q, x) /\ x # o
<1> DEFINE S == {k \in DOMAIN q : q[k] = o}
           i == Lowest(S)
<1>1. DOMAIN q = 1..Len(q) /\ \A x : Contains(q, x) <=> \E k \in DOMAIN q : q[k] = x
  BY QueuedFacts
<1>2. CASE S = {}
  <2>1. i = 0
    BY <1>2 DEF Lowest
  <2>2. Without(q, o) = q
    BY <2>1 DEF Without
  <2> QED BY <1>1, <1>2, <2>2
<1>3. CASE S # {}
  <2>1. S \subseteq Nat
    BY <1>1
  <2>2. i \in S
    <3> HIDE DEF S
    <3> QED BY <1>3, <2>1, LowestFacts
  <2>3. i # 0 /\ i \in DOMAIN q /\ q[i] = o
    BY <1>1, <2>2
  <2>4. Without(q, o) = RemoveAt(q, i)
    BY <2>3 DEF Without
  <2> HIDE DEF i
  <2> QED BY <2>3, <2>4, RemoveAtQueue
<1> QED BY <1>2, <1>3

\* One object as a queue.
LEMMA OneObject == ASSUME NEW o \in Objects PROVE <<o>> \in Seq(Objects) /\ IsInjective(<<o>>) /\ Range(<<o>>) = {o}
BY DEF IsInjective, Range

\* DG_FreeObjs voids its packets.
LEMMA FreeObjsInv == ASSUME IInv, NEW o \in Objects, FreeObjs(o) PROVE IInv'
<1>1. /\ phase = "game" /\ codec = "closed" /\ stage # "loading" /\ ~stopped
      /\ queue' = Without(queue, o) /\ heap' = FreePackets(heap, <<o>>) /\ packs' = Unpacked(<<o>>)
      /\ freeCount' = [freeCount EXCEPT ![o] = 0]
      /\ UNCHANGED <<block, gvars, lists, frame, mode, undraw, phase>>
  BY DEF FreeObjs, ActorsRun, Paused
<1>2. queue \in Seq(Objects) /\ IsInjective(queue)
  BY DEF IInv, Typed
<1>3. /\ queue' \in Seq(Objects) /\ IsInjective(queue')
      /\ \A x : Contains(queue', x) <=> Contains(queue, x) /\ x # o
  BY <1>1, <1>2, WithoutFacts
<1>4. /\ Queued' \subseteq Objects /\ \A x \in Queued : x \in Queued' \/ x \in Range(<<o>>)
  <2>1. \A x : x \in Queued <=> Contains(queue, x)
    BY <1>2, QueuedFacts DEF Queued
  <2>2. \A x : x \in Queued' <=> Contains(queue', x)
    BY <1>3, QueuedFacts DEF Queued
  <2>3. Queued' \subseteq Objects
    BY <1>3, QueuedFacts DEF Queued
  <2> QED BY <1>3, <2>1, <2>2, <2>3, OneObject
<1>5. \A x \in Objects : freeCount'[x] = freeCount[x] \/ x \in Range(<<o>>)
  BY <1>1, OneObject DEF IInv, TypeOK
<1>6. Memory' /\ PointersRight' /\ Counts' /\ Reads' /\ packs' \in Packs
  BY <1>1, <1>4, <1>5, OneObject, FreedPackets DEF gvars, frame, mode
<1>7. TypeOK' /\ Typed'
  <2>1. freeCount' \in [Objects -> -1..FreeCount]
    BY <1>1, BaseFacts DEF IInv, TypeOK
  <2> QED BY <1>1, <1>3, <1>4, <1>6, <2>1 DEF IInv, TypeOK, Typed, Packs, gvars, lists, frame, mode
<1>8. queue = << >> => queue' = << >>
  <2>1. ASSUME queue = << >>, queue' # << >> PROVE FALSE
    <3>1. Len(queue') > 0
      BY <1>3, <2>1, EmptySeq, LenProperties
    <3>2. Contains(queue', queue'[1])
      BY <1>3, <3>1, QueuedFacts
    <3>3. Contains(queue, queue'[1])
      BY <1>3, <3>2
    <3> QED BY <2>1, <3>3 DEF Contains
  <2> QED BY <2>1
<1>9. Modes' /\ Ended' /\ Built'
  BY <1>1, <1>8, NotBuilt DEF IInv, Modes, Ended, gvars, lists, frame, mode
<1> QED BY <1>6, <1>7, <1>9 DEF IInv

\* DG_FreeObjsPacket does so too, and the object stays.
LEMMA FreeObjsPacketInv == ASSUME IInv, NEW o \in Objects, FreeObjsPacket(o) PROVE IInv'
<1>1. /\ phase = "game" /\ codec = "closed" /\ stage = "play" /\ ~stopped
      /\ heap' = FreePackets(heap, <<o>>) /\ packs' = Unpacked(<<o>>)
      /\ UNCHANGED <<freeCount, queue, block, gvars, lists, frame, mode, undraw, phase>>
  BY DEF FreeObjsPacket, Making, ActorsRun, Paused
<1>2. Queued' = Queued
  BY <1>1 DEF Queued
<1>3. Memory' /\ PointersRight' /\ Counts' /\ Reads' /\ packs' \in Packs
  BY <1>1, <1>2, OneObject, FreedPackets DEF gvars, frame, mode
<1>4. TypeOK' /\ Typed'
  BY <1>1, <1>2, <1>3 DEF IInv, TypeOK, Typed, Packs, gvars, lists, frame, mode
<1>5. Modes' /\ Ended' /\ Built'
  BY <1>1, NotBuilt DEF IInv, Modes, Ended, gvars, lists, frame, mode
<1> QED BY <1>3, <1>4, <1>5 DEF IInv

\* DG_StopMainChanlSystem voids the packets of all objects.
LEMMA StopMainInv == ASSUME IInv, StopMain PROVE IInv'
<1>1. /\ phase = "game" /\ codec = "closed" /\ stage = "play" /\ stopped' = TRUE
      /\ heap' = FreePackets(heap, queue) /\ packs' = Unpacked(queue)
      /\ UNCHANGED <<scene, noslow, readError, codec, stage, killing, freeCount, queue, block, gvars, lists, frame, undraw, phase>>
  BY DEF StopMain, Making, ActorsRun, Paused
<1>2. Queued' = Queued /\ queue \in Seq(Objects) /\ IsInjective(queue)
  BY <1>1 DEF Queued, IInv, Typed
<1>3. Memory' /\ PointersRight' /\ Counts' /\ Reads' /\ packs' \in Packs
  BY <1>1, <1>2, FreedPackets DEF gvars, frame
<1>4. TypeOK' /\ Typed'
  BY <1>1, <1>2, <1>3 DEF IInv, TypeOK, Typed, Packs, gvars, lists, frame
<1>5. Modes' /\ Ended' /\ Built'
  BY <1>1, NotBuilt DEF IInv, Modes, Ended, gvars, lists, frame
<1> QED BY <1>3, <1>4, <1>5 DEF IInv

\* The modes change, and nothing else.
LEMMA ModesInv == ASSUME IInv, SetUndraw \/ SetNoSlow \/ ReadError \/ RestartMain \/ KillStage PROVE IInv'
<1>1. /\ phase = "game" /\ phase' = "game" /\ codec' = codec /\ UNCHANGED <<store, gvars, lists, frame>>
      /\ stage' # "killing" => stage' = stage /\ killing' = killing
  BY DEF SetUndraw, SetNoSlow, ReadError, RestartMain, KillStage, Making, ActorsRun, mode
<1>2. Queued' = Queued
  BY <1>1 DEF Queued, store
<1>3. Memory' /\ Reads' /\ PointersRight' /\ Counts'
  BY <1>1, <1>2, KeepMemory, KeepReads, KeepPointers, KeepCounts DEF IInv, Typed, gvars, frame, store
<1>4. TypeOK' /\ Typed'
  <2>1. undraw' \in 0..MaxUndraw /\ stage' \in {"play", "killing", "loading"} /\ killing' \in 0..3
    BY BaseFacts DEF IInv, TypeOK, SetUndraw, SetNoSlow, ReadError, RestartMain, KillStage, mode
  <2>2. {noslow', readError', stopped'} \subseteq BOOLEAN
    BY DEF IInv, Typed, SetUndraw, SetNoSlow, ReadError, RestartMain, KillStage, mode
  <2> QED BY <1>1, <1>2, <2>1, <2>2 DEF IInv, TypeOK, Typed, gvars, lists, frame, store
<1>5. Modes' /\ Ended'
  <2>1. CASE SetUndraw
    BY <1>1, <2>1 DEF SetUndraw, IInv, Modes, Ended, gvars, lists, frame, mode, store
  <2>2. CASE SetNoSlow
    BY <1>1, <2>2 DEF SetNoSlow, Making, ActorsRun, Paused, IInv, Modes, Ended, gvars, lists, frame, store
  <2>3. CASE ReadError
    BY <1>1, <2>3 DEF ReadError, IInv, Modes, Ended, gvars, lists, frame, store
  <2>4. CASE RestartMain
    BY <1>1, <2>4 DEF RestartMain, IInv, Modes, Ended, gvars, lists, frame, store
  <2>5. CASE KillStage
    BY <1>1, <2>5 DEF KillStage, Making, ActorsRun, Paused, IInv, Modes, Ended, gvars, lists, frame, store
  <2> QED BY <2>1, <2>2, <2>3, <2>4, <2>5
<1>6. Built'
  BY <1>1, NotBuilt
<1> QED BY <1>3, <1>4, <1>5, <1>6 DEF IInv

\* The GPU is done.
LEMMA GpuDoneInv == ASSUME IInv, GpuDone PROVE IInv'
<1>1. gpu' = {} /\ drawing' = -1 /\ UNCHANGED <<lists, frame, mode, store, undraw, phase>>
  BY DEF GpuDone
<1>2. Queued' = Queued
  BY <1>1 DEF Queued, store
<1>3. Memory' /\ Reads' /\ PointersRight' /\ Counts'
  BY <1>1, <1>2, KeepMemory, NoReads, KeepPointers, KeepCounts DEF IInv, Typed, mode, frame, store
<1>4. TypeOK' /\ Typed'
  BY <1>1, <1>2 DEF IInv, TypeOK, Typed, lists, frame, mode, store
<1>5. Modes' /\ Ended' /\ Built'
  <2>1. clock \in {0, 1}
    BY DEF IInv, TypeOK
  <2> QED BY <1>1, <2>1 DEF IInv, Modes, Ended, Built, lists, frame, mode, store
<1> QED BY <1>3, <1>4, <1>5 DEF IInv

\* The objects of a map as a queue.
LEMMA SetToSeqFacts == ASSUME NEW S, IsFiniteSet(S), S \subseteq Objects
                       PROVE  SetToSeq(S) \in Seq(Objects) /\ IsInjective(SetToSeq(S))
<1> DEFINE N == Cardinality(S)
           f == SetToSeq(S)
<1>1. N \in Nat /\ ExistsBijection(1..N, S)
  BY FS_CardinalityType
<1>2. \E g \in [1..N -> S] : IsInjective(g)
  <2>1. \E g \in [1..N -> S] : \A a, b \in 1..N : g[a] = g[b] => a = b
    BY <1>1 DEF ExistsBijection, Bijection, Injection, Surjection, IsInjective
  <2> QED BY <2>1 DEF IsInjective
<1>3. f \in [1..N -> S] /\ IsInjective(f)
  BY <1>2 DEF SetToSeq
<1>4. f \in [1..N -> Objects]
  <2> HIDE DEF f, N
  <2> QED BY <1>3
<1>5. f \in Seq(Objects)
  <2> HIDE DEF f, N
  <2> QED BY <1>1, <1>4, SeqOfLength
<1> QED BY <1>3, <1>5

\* The stage begins.
LEMMA BeginStageInv == ASSUME IInv, BeginStage PROVE IInv'
<1>1. /\ phase = "game" /\ stage = "loading" /\ stage' = "play"
      /\ queue' = (IF "map" \in scene THEN SetToSeq(Objects \cap scene) ELSE queue)
      /\ UNCHANGED <<scene, noslow, readError, stopped, codec, killing, gvars, lists, frame,
                     heap, packs, freeCount, block, undraw, phase>>
  BY DEF BeginStage
<1>2. queue \in Seq(Objects) /\ IsInjective(queue) /\ queue = << >> /\ Queued = {} /\ ~stopped /\ codec = "closed" /\ ~noslow
  BY <1>1 DEF IInv, Typed, Ended, Queued, Modes
<1>3. queue' \in Seq(Objects) /\ IsInjective(queue')
  <2>1. IsFiniteSet(Objects \cap scene) /\ Objects \cap scene \subseteq Objects
    BY FrameAssumption, FS_Subset
  <2>2. SetToSeq(Objects \cap scene) \in Seq(Objects) /\ IsInjective(SetToSeq(Objects \cap scene))
    BY <2>1, SetToSeqFacts
  <2> QED BY <1>1, <1>2, <2>2
<1>4. Queued' \subseteq Objects /\ Queued \subseteq Queued'
  BY <1>2, <1>3, QueuedFacts DEF Queued
<1>5. Memory' /\ Reads' /\ PointersRight' /\ Counts'
  BY <1>1, <1>4, KeepMemory, KeepReads, KeepPointers, KeepCounts DEF IInv, Typed, gvars, frame
<1>6. TypeOK' /\ Typed'
  BY <1>1, <1>3, <1>4 DEF IInv, TypeOK, Typed, gvars, lists, frame
<1>7. Modes' /\ Ended' /\ Built'
  BY <1>1, <1>2, NotBuilt DEF IInv, Modes, Ended, gvars, lists, frame
<1> QED BY <1>5, <1>6, <1>7 DEF IInv

-----------------------------------------------------------------------------
(* Blocks that are made and released. *)

\* A block is made in heap m, or there is no room: n is the heap then, and start where it is or Null.
Made(m, from, to, size, owner, n, start) ==
  /\ n \in Heap /\ n.dynamic = m.dynamic /\ Cut(n.units, from, to) /\ Grown(m, n) /\ start \in Nat
  /\ \A x : Own(n, x) = IF x = owner /\ start # Null THEN Own(m, x) \cup {[start |-> start, size |-> size, by |-> owner]}
                        ELSE Own(m, x)
  /\ start # Null => Given(m, n, [start |-> start, size |-> size, by |-> owner])
  /\ start = Null => LiveIn(n) = LiveIn(m) /\ FreeIn(n) = FreeIn(m)

\* What an allocation makes.
LEMMA MadeFacts ==
  ASSUME NEW m \in Heap, NEW from \in Nat \ {0}, NEW to, Cut(m.units, from, to), NEW size \in Nat \ {0}, NEW owner \in Names
  PROVE  LET made == GV_AllocMemory2(m, size, owner) IN Made(m, from, to, size, owner, made.heap, made.start)
<1> DEFINE made == GV_AllocMemory2(m, size, owner)
           n == made.heap
           piece == [start |-> made.start, size |-> size, by |-> owner]
<1>1. /\ n \in Heap /\ n.dynamic = m.dynamic /\ Cut(n.units, from, to) /\ made.start \in Nat
      /\ made.start = Null => LiveIn(n) = LiveIn(m) /\ FreeIn(n) = FreeIn(m)
      /\ made.start # Null => Given(m, n, piece)
  BY AllocMemory2
<1> HIDE DEF made
<1>2. Grown(m, n)
  BY <1>1, GivenGrown, FewerGrown
<1>3. ASSUME NEW x
      PROVE  Own(n, x) = IF x = owner /\ made.start # Null THEN Own(m, x) \cup {piece} ELSE Own(m, x)
  <2>1. CASE made.start = Null
    BY <1>1, <2>1 DEF Own
  <2>2. CASE made.start # Null
    <3>1. LiveIn(n) = LiveIn(m) \cup {piece} /\ piece.by = owner
      BY <1>1, <2>2 DEF Given
    <3> HIDE DEF piece
    <3> QED BY <2>2, <3>1 DEF Own
  <2> QED BY <2>1, <2>2
<1>4. Made(m, from, to, size, owner, n, made.start)
  BY <1>1, <1>2, <1>3 DEF Made
<1> QED BY <1>4 DEF made

\* Blocks that are in different heaps do not overlap, nor what lies inside them.
LEMMA ApartInside ==
  ASSUME Memory, NEW h \in {0, 1, 2}, NEW k \in {0, 1, 2}, h # k, NEW r, r.start \in Nat, r.size \in Nat,
         NEW c \in LiveIn(heap[h]) \cup FreeIn(heap[h]), Inside(r, c), NEW b \in LiveIn(heap[k]) \cup FreeIn(heap[k])
  PROVE  ~Overlap(r, b)
<1>1. ~Overlap(c, b) /\ b.start \in Nat /\ b.size \in Nat /\ c.start \in Nat /\ c.size \in Nat
  BY MemoryBlocks
<1> QED BY <1>1 DEF Overlap, Inside

\* A block that has just been made shares nothing with the others of its heap.
LEMMA GivenReads ==
  ASSUME NEW m, NEW n, NEW from \in Nat, NEW to, Cut(n.units, from, to), NEW r, r.by \in Names, Given(m, n, r), NEW b
  PROVE  /\ b \in LiveIn(n) /\ Overlap(r, b) => b = r
         /\ b \in FreeIn(n) => ~Overlap(r, b)
<1>1. r \in LiveIn(n)
  BY DEF Given
<1>2. Loose(n.units, from, to)
  BY CutLoose
<1>3. \A c \in LiveIn(n) \cup FreeIn(n) : Overlap(r, c) => r = c
  BY <1>1, <1>2, HeapBlocks
<1>4. b \in FreeIn(n) => b.by = "free"
  BY DEF FreeIn, BlockAt
<1>5. r.by # "free"
  BY NamesFacts
<1> QED BY <1>3, <1>4, <1>5

\* An actor is given a block of the normal heap.
LEMMA MallocInv == ASSUME IInv, NEW n \in Prims \cup Works, Malloc(n) PROVE IInv'
<1> DEFINE made == GV_AllocMemory2(heap[2], Size[n], n)
           new == made.heap
           at == made.start
<1>1. /\ phase = "game" /\ codec = "closed" /\ stage = "play" /\ ~stopped /\ block[n] = Null
      /\ heap' = [heap EXCEPT ![2] = new] /\ block' = [block EXCEPT ![n] = at]
      /\ UNCHANGED <<packs, freeCount, queue, gvars, lists, frame, mode, undraw, phase>>
  BY DEF Malloc, Making, ActorsRun, Paused
<1>2. /\ heap[2] \in Heap /\ Base(2) \in Nat \ {0} /\ Cut(heap[2].units, Base(2), To(2, codec)) /\ ~heap[2].dynamic
      /\ heap \in [{0, 1, 2} -> Heap] /\ block \in [Prims \cup Works -> Nat] /\ clock \in {0, 1}
  <2>1. Memory
    BY DEF IInv
  <2>2. heap \in [{0, 1, 2} -> Heap] /\ ~heap[2].dynamic
    BY <2>1 DEF Memory
  <2>3. Cut(heap[2].units, Base(2), To(2, codec)) /\ Base(2) \in Nat \ {0}
    BY <2>1, MemoryFacts
  <2> QED BY <2>2, <2>3 DEF IInv, Typed, TypeOK
<1>3. Size[n] \in Nat \ {0} /\ n \in Names
  BY FrameAssumption DEF Names
<1>4. Made(heap[2], Base(2), To(2, codec), Size[n], n, new, at)
  BY <1>2, <1>3, MadeFacts
<1> HIDE DEF made
<1>5. heap' \in [{0, 1, 2} -> Heap] /\ heap'[2] = new /\ heap'[0] = heap[0] /\ heap'[1] = heap[1]
  BY <1>1, <1>2, <1>4 DEF Made
<1>6. block' \in [Prims \cup Works -> Nat] /\ block'[n] = at /\ \A x \in (Prims \cup Works) \ {n} : block'[x] = block[x]
  BY <1>1, <1>2, <1>4 DEF Made
<1>7. Memory'
  <2>1. Cut(heap'[2].units, Base(2), Base(2) + NormalSize) /\ ~heap'[2].dynamic
    BY <1>2, <1>4, <1>5 DEF Made, To
  <2> QED BY <1>1, <1>5, <2>1 DEF IInv, Memory, mode
<1>8. /\ \A w \in {0, 1} : Owned(packs, heap[w], w)
      /\ \A o \in Objects, w \in {0, 1} : packs[o][w] # Null => o \in Queued /\ codec = "closed"
      /\ Has(block, heap[2])
  BY <1>2, Owners DEF IInv
<1>9. Has(block', heap'[2])
  <2> SUFFICES ASSUME NEW x \in Prims \cup Works PROVE Own(new, x) = IF block'[x] = Null THEN {} ELSE {Read(block'[x], x)}
    BY <1>5 DEF Has
  <2>1. CASE x = n
    <3>1. Own(heap[2], x) = {}
      BY <1>1, <1>8, <2>1 DEF Has
    <3> QED BY <1>4, <1>6, <2>1, <3>1 DEF Made, Read
  <2>2. CASE x # n
    <3>1. Own(new, x) = Own(heap[2], x)
      BY <1>4, <2>2 DEF Made
    <3> QED BY <1>6, <1>8, <2>2, <3>1 DEF Has
  <2> QED BY <2>1, <2>2
<1>10. PointersRight'
  <2>1. \A w \in {0, 1} : Owned(packs', heap'[w], w)
    BY <1>1, <1>5, <1>8
  <2>2. Queued' = Queued
    BY <1>1 DEF Queued
  <2>3. \A o \in Objects, w \in {0, 1} : packs'[o][w] # Null => o \in Queued' /\ codec' = "closed"
    <3> TAKE o \in Objects, w \in {0, 1}
    <3> QED BY <1>1, <1>8, <2>2 DEF mode
  <2> QED BY <1>6, <1>9, <2>1, <2>3, OwnersNext
<1>11. Reads'
  <2>1. (\A h \in {0, 1, 2} : ReadsOf(gpu, heap[h], h, codec, clock)) /\ (late /\ codec = "closed" => Away(gpu, clock))
    BY ReadsParts DEF IInv
  <2>2. ReadsOf(gpu, new, 2, codec, clock)
    <3>1. gpu \in SUBSET Piece /\ 2 # 1 - clock
      BY <1>2 DEF IInv, Typed
    <3>2. Cut(new.units, Base(2), To(2, codec)) /\ Grown(heap[2], new)
      BY <1>4 DEF Made
    <3> QED BY <1>2, <2>1, <3>1, <3>2, GrownReads
  <2>3. \A h \in {0, 1, 2} : ReadsOf(gpu', heap'[h], h, codec', clock')
    BY <1>1, <1>5, <2>1, <2>2 DEF gvars, mode, frame
  <2> QED BY <1>1, <2>1, <2>3, ReadsNext DEF gvars, mode, frame
<1>12. TypeOK' /\ Typed' /\ Counts'
  BY <1>1, <1>6 DEF IInv, TypeOK, Typed, Counts, Queued, gvars, lists, frame, mode
<1>13. Modes' /\ Ended' /\ Built'
  BY <1>1, NotBuilt DEF IInv, Modes, Ended, gvars, lists, frame, mode
<1> QED BY <1>7, <1>10, <1>11, <1>12, <1>13 DEF IInv

\* It gives the block back, at once or when the heap is next cleared.
LEMMA ReleaseInv == ASSUME IInv, NEW n \in Prims \cup Works, Release(n) PROVE IInv'
<1> DEFINE b == Read(block[n], n)
           new == IF n \in Prims THEN GV_FreeMemory2(heap[2], block[n]) ELSE GV_FreeMemory(heap[2], block[n])
<1>1. /\ phase = "game" /\ codec = "closed" /\ ~stopped /\ block[n] # Null
      /\ heap' = [heap EXCEPT ![2] = new] /\ block' = [block EXCEPT ![n] = Null]
      /\ UNCHANGED <<packs, freeCount, queue, gvars, lists, frame, mode, undraw, phase>>
  BY DEF Release, ActorsRun, Paused
<1>2. /\ heap[2] \in Heap /\ Base(2) \in Nat \ {0} /\ Cut(heap[2].units, Base(2), To(2, codec)) /\ ~heap[2].dynamic
      /\ heap \in [{0, 1, 2} -> Heap] /\ block \in [Prims \cup Works -> Nat] /\ clock \in {0, 1}
      /\ gpu \in SUBSET Piece
  <2>1. Memory
    BY DEF IInv
  <2>2. heap \in [{0, 1, 2} -> Heap] /\ ~heap[2].dynamic
    BY <2>1 DEF Memory
  <2>3. Cut(heap[2].units, Base(2), To(2, codec)) /\ Base(2) \in Nat \ {0}
    BY <2>1, MemoryFacts
  <2> QED BY <2>2, <2>3 DEF IInv, Typed, TypeOK
<1>3. /\ \A w \in {0, 1} : Owned(packs, heap[w], w)
      /\ \A o \in Objects, w \in {0, 1} : packs[o][w] # Null => o \in Queued /\ codec = "closed"
      /\ Has(block, heap[2])
  BY <1>2, Owners DEF IInv
<1>4. Own(heap[2], n) = {b} /\ b \in LiveIn(heap[2]) /\ b.start = block[n] /\ b.by = n
  <2>1. Own(heap[2], n) = {b}
    BY <1>1, <1>3 DEF Has
  <2>2. b \in Own(heap[2], n)
    BY <2>1
  <2> QED BY <2>1, <2>2 DEF Own, Read
<1> HIDE DEF b
<1>5. /\ new \in Heap /\ new.dynamic = heap[2].dynamic /\ Cut(new.units, Base(2), To(2, codec))
      /\ LiveIn(new) = LiveIn(heap[2]) \ {b}
      /\ n \in Prims => FreeIn(new) = FreeIn(heap[2])
      /\ \A r \in Piece : \A c \in FreeIn(new) :
           Overlap(r, c) => (n \in Works /\ Overlap(r, b)) \/ \E d \in FreeIn(heap[2]) : Overlap(r, d)
  <2>1. CASE n \in Prims
    <3> DEFINE x == GV_FreeMemory2(heap[2], block[n])
    <3>1. new = x
      BY <2>1
    <3>2. /\ x \in Heap /\ x.dynamic = heap[2].dynamic /\ Cut(x.units, Base(2), To(2, codec))
          /\ LiveIn(x) = LiveIn(heap[2]) \ {b} /\ FreeIn(x) = FreeIn(heap[2])
      <4>1. LET y == GV_FreeMemory2(heap[2], b.start) IN
            /\ y \in Heap /\ y.dynamic = heap[2].dynamic /\ Cut(y.units, Base(2), To(2, codec))
            /\ LiveIn(y) = LiveIn(heap[2]) \ {b} /\ FreeIn(y) = FreeIn(heap[2])
        BY <1>2, <1>4, FreeMemory2
      <4> QED BY <1>4, <4>1
    <3> HIDE DEF x, new
    <3> QED BY <3>1, <3>2
  <2>2. CASE n \notin Prims
    <3> DEFINE x == GV_FreeMemory(heap[2], block[n])
    <3>1. new = x /\ n \in Works
      BY <2>2
    <3>2. /\ x \in Heap /\ x.dynamic = heap[2].dynamic /\ Cut(x.units, Base(2), To(2, codec))
          /\ LiveIn(x) = LiveIn(heap[2]) \ {b}
          /\ \A r \in Piece : \A c \in FreeIn(x) : Overlap(r, c) => Overlap(r, b) \/ \E d \in FreeIn(heap[2]) : Overlap(r, d)
      <4>1. LET y == GV_FreeMemory(heap[2], b.start) IN
            /\ y \in Heap /\ y.dynamic = heap[2].dynamic /\ Cut(y.units, Base(2), To(2, codec))
            /\ LiveIn(y) = LiveIn(heap[2]) \ {b}
            /\ \A r \in Piece : \A c \in FreeIn(y) : Overlap(r, c) => Overlap(r, b) \/ \E d \in FreeIn(heap[2]) : Overlap(r, d)
        BY <1>2, <1>4, FreeMemory
      <4> QED BY <1>4, <4>1
    <3> HIDE DEF x, new
    <3> QED BY <2>2, <3>1, <3>2
  <2> QED BY <2>1, <2>2
<1> HIDE DEF new
<1>6. heap' \in [{0, 1, 2} -> Heap] /\ heap'[2] = new /\ heap'[0] = heap[0] /\ heap'[1] = heap[1]
  BY <1>1, <1>2, <1>5
<1>7. block' \in [Prims \cup Works -> Nat] /\ block'[n] = Null /\ \A x \in (Prims \cup Works) \ {n} : block'[x] = block[x]
  BY <1>1, <1>2 DEF Null
<1>8. Memory'
  <2>1. Cut(heap'[2].units, Base(2), Base(2) + NormalSize) /\ ~heap'[2].dynamic
    BY <1>2, <1>5, <1>6 DEF To
  <2> QED BY <1>1, <1>6, <2>1 DEF IInv, Memory, mode
<1>9. Has(block', heap'[2])
  <2> SUFFICES ASSUME NEW x \in Prims \cup Works PROVE Own(new, x) = IF block'[x] = Null THEN {} ELSE {Read(block'[x], x)}
    BY <1>6 DEF Has
  <2>1. CASE x = n
    BY <1>4, <1>5, <1>7, <2>1 DEF Own
  <2>2. CASE x # n
    <3>1. Own(new, x) = Own(heap[2], x)
      BY <1>4, <1>5, <2>2 DEF Own
    <3> QED BY <1>3, <1>7, <2>2, <3>1 DEF Has
  <2> QED BY <2>1, <2>2
<1>10. PointersRight'
  <2>1. \A w \in {0, 1} : Owned(packs', heap'[w], w)
    BY <1>1, <1>3, <1>6
  <2>2. Queued' = Queued
    BY <1>1 DEF Queued
  <2>3. \A o \in Objects, w \in {0, 1} : packs'[o][w] # Null => o \in Queued' /\ codec' = "closed"
    <3> TAKE o \in Objects, w \in {0, 1}
    <3> QED BY <1>1, <1>3, <2>2 DEF mode
  <2> QED BY <1>7, <1>9, <2>1, <2>3, OwnersNext
<1>11. Reads'
  <2>1. (\A h \in {0, 1, 2} : ReadsOf(gpu, heap[h], h, codec, clock)) /\ (late /\ codec = "closed" => Away(gpu, clock))
    BY ReadsParts DEF IInv
  <2>2. ASSUME NEW r \in gpu PROVE (n \in Works => ~Overlap(r, b)) /\ \A d \in FreeIn(heap[2]) : ~Overlap(r, d)
    <3>1. r \in Piece /\ 2 # 1 - clock
      BY <1>2
    <3>2. n \in Works => r # b
      BY <1>4, <3>1, FrameAssumption DEF Piece
    <3> QED BY <1>1, <1>4, <2>1, <3>1, <3>2 DEF ReadsOf
  <2>3. ReadsOf(gpu, new, 2, codec, clock)
    <3>1. \A r \in gpu : \A c \in LiveIn(new) : Overlap(r, c) => c = r
      BY <1>1, <1>5, <2>1 DEF ReadsOf
    <3>2. \A r \in gpu : \A c \in FreeIn(new) : ~Overlap(r, c)
      BY <1>2, <1>5, <2>2
    <3> QED BY <3>1, <3>2 DEF ReadsOf
  <2>4. \A h \in {0, 1, 2} : ReadsOf(gpu', heap'[h], h, codec', clock')
    BY <1>1, <1>6, <2>1, <2>3 DEF gvars, mode, frame
  <2> QED BY <1>1, <2>1, <2>4, ReadsNext DEF gvars, mode, frame
<1>12. TypeOK' /\ Typed' /\ Counts'
  BY <1>1, <1>7 DEF IInv, TypeOK, Typed, Counts, Queued, gvars, lists, frame, mode
<1>13. Modes' /\ Ended' /\ Built'
  <2>1. (\A x \in DOMAIN block : block[x] = Null) => FALSE
    BY <1>1, <1>2
  <2> QED BY <1>1, <2>1, NotBuilt DEF IInv, Modes, Ended, gvars, lists, frame, mode
<1> QED BY <1>8, <1>10, <1>11, <1>12, <1>13 DEF IInv

-----------------------------------------------------------------------------
(* What the GPU is given besides the lists. *)

\* What every step needs of the state before it.
LEMMA StateFacts ==
  ASSUME IInv
  PROVE  /\ Memory /\ heap \in [{0, 1, 2} -> Heap] /\ packs \in Packs /\ block \in [Prims \cup Works -> Nat]
         /\ clock \in {0, 1} /\ gpu \in SUBSET Piece /\ list \in [{0, 1} -> SUBSET Piece]
         /\ \A w \in {0, 1} : Owned(packs, heap[w], w)
         /\ \A o \in Objects, w \in {0, 1} : packs[o][w] # Null => o \in Queued /\ codec = "closed"
         /\ Has(block, heap[2])
         /\ \A h \in {0, 1, 2} : ReadsOf(gpu, heap[h], h, codec, clock)
         /\ late /\ codec = "closed" => Away(gpu, clock)
<1>1. Memory /\ packs \in Packs /\ block \in [Prims \cup Works -> Nat]
      /\ clock \in {0, 1} /\ gpu \in SUBSET Piece /\ list \in [{0, 1} -> SUBSET Piece]
  BY DEF IInv, TypeOK, Typed, Packs
<1>2. heap \in [{0, 1, 2} -> Heap]
  BY <1>1 DEF Memory
<1>3. PointersRight /\ Reads
  BY DEF IInv
<1> QED BY <1>1, <1>2, <1>3, Owners, ReadsParts

\* The codec's image is made where nobody else is; the list of the frame before may be there.
LEMMA LoadFaceInv == ASSUME IInv, LoadFace PROVE IInv'
<1> DEFINE made == GV_AllocMemory2(heap[0], Size["face"], "face")
           new == made.heap
           r == Read(made.start, "face")
<1>1. /\ phase = "game" /\ codec # "closed" /\ made.start # Null
      /\ heap' = [heap EXCEPT ![0] = new] /\ gpu' = gpu \cup {r}
      /\ UNCHANGED <<packs, freeCount, queue, block, drawing, lists, frame, mode, undraw, phase>>
  BY DEF LoadFace
<1>2. /\ heap[0] \in Heap /\ Base(0) \in Nat \ {0} /\ Cut(heap[0].units, Base(0), To(0, codec)) /\ ~heap[0].dynamic
  BY <1>1, StateFacts, MemoryFacts
<1>3. Size["face"] \in Nat \ {0} /\ "face" \in Names
  BY FrameAssumption DEF Names
<1>4. Made(heap[0], Base(0), To(0, codec), Size["face"], "face", new, made.start)
  BY <1>2, <1>3, MadeFacts
<1>5. /\ r = [start |-> made.start, size |-> Size["face"], by |-> "face"]
      /\ r.start \in Nat \ {0} /\ r.size \in Nat \ {0} /\ r.by = "face" /\ r \in Piece
  <2>1. made.start \in Nat \ {0}
    BY <1>1, <1>4 DEF Made, Null
  <2>2. "face" \in Names \ Works
    BY FrameAssumption DEF Names
  <2> HIDE DEF made
  <2> QED BY <1>3, <2>1, <2>2 DEF Read, Piece
<1>6. Given(heap[0], new, r)
  BY <1>1, <1>4, <1>5 DEF Made
<1> HIDE DEF made, r
<1>7. heap' \in [{0, 1, 2} -> Heap] /\ heap'[0] = new /\ heap'[1] = heap[1] /\ heap'[2] = heap[2]
  BY <1>1, <1>4, StateFacts DEF Made
<1>8. Memory'
  <2>1. Cut(heap'[0].units, Base(0), Base(0) + 2 * PackSize) /\ ~heap'[0].dynamic
    BY <1>1, <1>2, <1>4, <1>7 DEF Made, To
  <2>2. Memory
    BY StateFacts
  <2> QED BY <1>1, <1>7, <2>1, <2>2 DEF Memory, mode
<1>9. PointersRight'
  <2>1. \A o \in Objects : Own(new, o) = Own(heap[0], o)
    <3>1. "face" \notin Objects
      BY FrameAssumption
    <3> QED BY <1>4, <3>1 DEF Made
  <2>2. Owned(packs', heap'[0], 0) /\ Owned(packs', heap'[1], 1)
    <3>1. Owned(packs, heap[0], 0) /\ Owned(packs, heap[1], 1)
      BY StateFacts
    <3> QED BY <1>1, <1>7, <2>1, <3>1 DEF Owned
  <2>3. Queued' = Queued
    BY <1>1 DEF Queued
  <2>4. \A o \in Objects, w \in {0, 1} : packs'[o][w] # Null => o \in Queued' /\ codec' = "closed"
    BY <1>1, <2>3, StateFacts DEF mode
  <2>5. Has(block', heap'[2]) /\ block' \in [Prims \cup Works -> Nat]
    BY <1>1, <1>7, StateFacts
  <2> QED BY <2>2, <2>4, <2>5, OwnersNext
<1>10. Reads'
  <2>1. \A h \in {0, 1, 2} : ReadsOf(gpu, heap[h], h, codec, clock)
    BY StateFacts
  <2>2. ReadsOf(gpu, new, 0, codec, clock)
    <3>1. Cut(new.units, Base(0), To(0, codec)) /\ Grown(heap[0], new)
      BY <1>4 DEF Made
    <3>2. CASE codec # "opened"
      <4>1. gpu \in SUBSET Piece
        BY StateFacts
      <4> QED BY <1>1, <1>2, <2>1, <3>1, <3>2, <4>1, GrownReads
    <3>3. CASE codec = "opened"
      <4>1. LiveIn(new) = LiveIn(heap[0]) \cup {r}
        BY <1>6 DEF Given
      <4>2. \A x \in gpu : \A b \in LiveIn(new) : Overlap(x, b) => b = x \/ b.by \in {"codec", "face"}
        BY <1>5, <2>1, <3>3, <4>1 DEF ReadsOf
      <4> QED BY <3>3, <4>2 DEF ReadsOf
    <3> QED BY <3>2, <3>3
  <2>3. ReadsOf({r}, new, 0, codec, clock)
    <3>1. \A b : (b \in LiveIn(new) /\ Overlap(r, b) => b = r) /\ (b \in FreeIn(new) => ~Overlap(r, b))
      <4>1. Cut(new.units, Base(0), To(0, codec)) /\ Base(0) \in Nat /\ r.by \in Names
        BY <1>2, <1>3, <1>4, <1>5 DEF Made
      <4> QED BY <1>6, <4>1, GivenReads
    <3> QED BY <3>1 DEF ReadsOf
  <2>4. ASSUME NEW h \in {1, 2} PROVE ReadsOf({r}, heap[h], h, codec, clock)
    <3>1. PICK c \in FreeIn(heap[0]) : Inside(r, c)
      BY <1>6 DEF Given
    <3>2. \A b \in LiveIn(heap[h]) \cup FreeIn(heap[h]) : ~Overlap(r, b)
      BY <1>5, <3>1, StateFacts, ApartInside
    <3> QED BY <3>2 DEF ReadsOf
  <2>5. \A h \in {0, 1, 2} : ReadsOf(gpu, heap'[h], h, codec, clock) /\ ReadsOf({r}, heap'[h], h, codec, clock)
    BY <1>7, <2>1, <2>2, <2>3, <2>4
  <2>6. \A h \in {0, 1, 2} : ReadsOf(gpu', heap'[h], h, codec', clock')
    <3>1. gpu' = gpu \cup {r} /\ codec' = codec /\ clock' = clock
      BY <1>1 DEF mode, frame
    <3> QED BY <2>5, <3>1 DEF ReadsOf
  <2>7. codec' # "closed"
    BY <1>1 DEF mode
  <2> QED BY <2>6, <2>7, ReadsNext
<1>11. TypeOK' /\ Typed' /\ Counts'
  BY <1>1, <1>5 DEF IInv, TypeOK, Typed, Counts, Queued, lists, frame, mode
<1>12. Modes' /\ Ended' /\ Built'
  BY <1>1, NotBuilt DEF IInv, Modes, Ended, lists, frame, mode
<1> QED BY <1>8, <1>9, <1>10, <1>11, <1>12 DEF IInv

\* The block of an image is void as soon as it is made, and stays so while the GPU loads it.
LEMMA LoadPcxInv == ASSUME IInv, LoadPcx PROVE IInv'
<1> DEFINE m == heap[clock]
           made == GV_AllocMemory2(m, Size["image"], "image")
           at == made.start
           new == IF at = Null THEN made.heap ELSE GV_FreeMemory2(made.heap, at)
           r == Read(at, "image")
           from == Base(clock)
           to == To(clock, codec)
<1>1. /\ phase = "game" /\ stage = "loading"
      /\ heap' = [heap EXCEPT ![clock] = new] /\ gpu' = (IF at = Null THEN gpu ELSE gpu \cup {r})
      /\ UNCHANGED <<packs, freeCount, queue, block, drawing, lists, frame, mode, undraw, phase>>
  BY DEF LoadPcx
<1>2. codec = "closed" /\ ~late /\ clock \in {0, 1}
  BY <1>1, StateFacts DEF IInv, Modes
<1>3. /\ m \in Heap /\ from \in Nat \ {0} /\ Cut(m.units, from, to) /\ clock # 2
  BY <1>2, StateFacts, MemoryFacts
<1>4. Size["image"] \in Nat \ {0} /\ "image" \in Names
  BY FrameAssumption DEF Names
<1>5. Made(m, from, to, Size["image"], "image", made.heap, at)
  BY <1>3, <1>4, MadeFacts
<1>6. /\ r = [start |-> at, size |-> Size["image"], by |-> "image"]
      /\ r.start = at /\ r.size \in Nat \ {0} /\ r.by = "image" /\ (at # Null => r \in Piece)
  <2>1. at \in Nat /\ (at # Null => at \in Nat \ {0})
    BY <1>5 DEF Made, Null
  <2>2. "image" \in Names \ Works
    BY FrameAssumption DEF Names
  <2> HIDE DEF at
  <2> QED BY <1>4, <2>1, <2>2 DEF Read, Piece
<1>7. at # Null => Given(m, made.heap, r)
  BY <1>5, <1>6 DEF Made
<1>8. /\ new \in Heap /\ new.dynamic = m.dynamic /\ Cut(new.units, from, to) /\ Grown(m, new) /\ FreeIn(new) = FreeIn(made.heap)
      /\ \A o \in Objects : Own(new, o) = Own(m, o)
      /\ at # Null => LiveIn(new) = LiveIn(made.heap) \ {r}
  <2>1. "image" \notin Objects
    BY FrameAssumption
  <2>2. CASE at = Null
    <3>1. new = made.heap
      BY <2>2
    <3> HIDE DEF new, made
    <3> QED BY <1>5, <2>1, <2>2, <3>1 DEF Made
  <2>3. CASE at # Null
    <3> DEFINE x == GV_FreeMemory2(made.heap, at)
    <3>1. new = x
      BY <2>3
    <3> HIDE DEF new
    <3>2. r \in LiveIn(made.heap) /\ made.heap \in Heap /\ Cut(made.heap.units, from, to)
      BY <1>5, <1>7, <2>3 DEF Made, Given
    <3> HIDE DEF made, r
    <3>3. /\ x \in Heap /\ x.dynamic = made.heap.dynamic /\ Cut(x.units, from, to)
          /\ LiveIn(x) = LiveIn(made.heap) \ {r} /\ FreeIn(x) = FreeIn(made.heap)
      <4>1. LET y == GV_FreeMemory2(made.heap, r.start) IN
            /\ y \in Heap /\ y.dynamic = made.heap.dynamic /\ Cut(y.units, from, to)
            /\ LiveIn(y) = LiveIn(made.heap) \ {r} /\ FreeIn(y) = FreeIn(made.heap)
        BY <1>3, <3>2, FreeMemory2
      <4> QED BY <1>6, <4>1
    <3> HIDE DEF x
    <3>4. Grown(m, new)
      <4>1. Grown(m, made.heap)
        BY <1>5 DEF Made
      <4> QED BY <3>1, <3>3, <4>1 DEF Grown
    <3>5. ASSUME NEW o \in Objects PROVE Own(new, o) = Own(m, o)
      <4>1. Own(made.heap, o) = Own(m, o)
        BY <1>5, <2>1 DEF Made
      <4>2. Own(new, o) = Own(made.heap, o)
        BY <1>6, <2>1, <3>1, <3>3 DEF Own
      <4> QED BY <4>1, <4>2
    <3> QED BY <1>5, <2>3, <3>1, <3>3, <3>4, <3>5 DEF Made
  <2> QED BY <2>2, <2>3
<1> HIDE DEF made, r, new, at
<1>9. heap' \in [{0, 1, 2} -> Heap] /\ heap'[clock] = new /\ \A h \in {0, 1, 2} \ {clock} : heap'[h] = heap[h]
  BY <1>1, <1>2, <1>8, StateFacts
<1>10. Memory'
  <2>1. Cut(heap'[clock].units, Base(clock), Base(clock) + PackSize)
    BY <1>2, <1>8, <1>9 DEF To
  <2>2. Memory
    BY StateFacts
  <2> HIDE DEF m, from, to
  <2> QED BY <1>1, <1>2, <1>9, <2>1, <2>2 DEF Memory, mode
<1>11. PointersRight'
  <2>1. ASSUME NEW w \in {0, 1} PROVE Owned(packs', heap'[w], w)
    <3>1. Owned(packs, heap[w], w)
      BY StateFacts
    <3>2. CASE w = clock
      BY <1>1, <1>8, <1>9, <3>1, <3>2 DEF Owned
    <3>3. CASE w # clock
      <4>1. heap'[w] = heap[w]
        BY <1>9, <3>3
      <4> QED BY <1>1, <3>1, <4>1
    <3> QED BY <3>2, <3>3
  <2>2. Queued' = Queued
    BY <1>1 DEF Queued
  <2>3. \A o \in Objects, w \in {0, 1} : packs'[o][w] # Null => o \in Queued' /\ codec' = "closed"
    BY <1>1, <2>2, StateFacts DEF mode
  <2>4. heap'[2] = heap[2]
    BY <1>3, <1>9
  <2>5. Has(block', heap'[2]) /\ block' \in [Prims \cup Works -> Nat]
    BY <1>1, <2>4, StateFacts
  <2> QED BY <2>1, <2>3, <2>5, OwnersNext
<1>12. Reads'
  <2>1. (\A h \in {0, 1, 2} : ReadsOf(gpu, heap[h], h, codec, clock)) /\ gpu \in SUBSET Piece
    BY StateFacts
  <2>2. ReadsOf(gpu, new, clock, codec, clock)
    <3>1. ReadsOf(gpu, m, clock, codec, clock) /\ ~(codec = "opened" /\ clock # 2) /\ ~(codec = "closed" /\ clock = 1 - clock)
      BY <1>2, <2>1
    <3>2. from \in Nat
      BY <1>3
    <3> HIDE DEF m, from, to
    <3> QED BY <1>3, <1>8, <2>1, <3>1, <3>2, GrownReads
  <2>3. ASSUME at # Null, NEW h \in {0, 1, 2} PROVE ReadsOf({r}, heap'[h], h, codec, clock)
    <3>1. r.start \in Nat /\ r.size \in Nat /\ r.by \in Names /\ Given(m, made.heap, r)
      BY <1>4, <1>6, <1>7, <2>3 DEF Piece
    <3>2. CASE h = clock
      <4>1. Cut(made.heap.units, from, to)
        BY <1>5 DEF Made
      <4>2. \A b : (b \in LiveIn(made.heap) /\ Overlap(r, b) => b = r) /\ (b \in FreeIn(made.heap) => ~Overlap(r, b))
        <5>1. from \in Nat
          BY <1>3
        <5> HIDE DEF from, to, m
        <5> QED BY <3>1, <4>1, <5>1, GivenReads
      <4>3. \A b : (b \in LiveIn(new) => ~Overlap(r, b)) /\ (b \in FreeIn(new) => ~Overlap(r, b))
        BY <1>8, <2>3, <4>2
      <4> QED BY <1>9, <3>2, <4>3 DEF ReadsOf
    <3>3. CASE h # clock
      <4>1. PICK c \in FreeIn(heap[clock]) : Inside(r, c)
        BY <3>1 DEF Given
      <4>2. clock \in {0, 1, 2} /\ clock # h /\ c \in LiveIn(heap[clock]) \cup FreeIn(heap[clock]) /\ Memory
        BY <1>2, <3>3, StateFacts
      <4>3. \A b \in LiveIn(heap[h]) \cup FreeIn(heap[h]) : ~Overlap(r, b)
        BY <3>1, <4>1, <4>2, ApartInside
      <4> QED BY <1>9, <3>3, <4>3 DEF ReadsOf
    <3> QED BY <3>2, <3>3
  <2>4. \A h \in {0, 1, 2} : ReadsOf(gpu, heap'[h], h, codec, clock)
    BY <1>9, <2>1, <2>2
  <2>5. \A h \in {0, 1, 2} : ReadsOf(gpu', heap'[h], h, codec', clock')
    <3>1. codec' = codec /\ clock' = clock
      BY <1>1 DEF mode, frame
    <3>2. CASE at = Null
      BY <1>1, <2>4, <3>1, <3>2
    <3>3. CASE at # Null
      <4>1. gpu' = gpu \cup {r}
        BY <1>1, <3>3
      <4> QED BY <2>3, <2>4, <3>1, <3>3, <4>1 DEF ReadsOf
    <3> QED BY <3>2, <3>3
  <2>6. ~late'
    BY <1>1, <1>2 DEF frame
  <2> QED BY <2>5, <2>6, ReadsNext
<1>13. TypeOK' /\ Typed' /\ Counts'
  BY <1>1, <1>6 DEF IInv, TypeOK, Typed, Counts, Queued, lists, frame, mode
<1>14. Modes' /\ Ended' /\ Built'
  BY <1>1, NotBuilt DEF IInv, Modes, Ended, lists, frame, mode
<1> QED BY <1>10, <1>11, <1>12, <1>13, <1>14 DEF IInv

-----------------------------------------------------------------------------
(* The heaps made anew. *)

\* The objects have nothing in a heap where nothing is, and nothing there is read.
LEMMA EmptyHeap ==
  ASSUME NEW dynamic \in BOOLEAN, NEW from \in Nat, NEW size \in Nat \ {0}
  PROVE  LET n == GV_InitMemorySystem(dynamic, from, size) IN
         /\ n \in Heap /\ n.dynamic = dynamic /\ Cut(n.units, from, from + size)
         /\ \A x : Own(n, x) = {}
<1>1. LET n == GV_InitMemorySystem(dynamic, from, size) IN
         /\ n \in Heap /\ n.dynamic = dynamic /\ Cut(n.units, from, from + size) /\ LiveIn(n) = {}
         /\ \A b \in FreeIn(n) : b = [start |-> from, size |-> size, by |-> "free"]
  BY NewHeap
<1> QED BY <1>1 DEF Own

\* A packet heap made anew is empty.
LEMMA PacketHeapFacts ==
  ASSUME NEW w \in {0, 1}
  PROVE  /\ PacketHeap(w) \in Heap /\ Cut(PacketHeap(w).units, Base(w), Base(w) + PackSize)
         /\ \A x : Own(PacketHeap(w), x) = {}
<1>1. Base(w) \in Nat /\ PackSize \in Nat \ {0} /\ TRUE \in BOOLEAN
  BY BaseFacts
<1>2. LET n == GV_InitMemorySystem(TRUE, Base(w), PackSize) IN
         /\ n \in Heap /\ n.dynamic = TRUE /\ Cut(n.units, Base(w), Base(w) + PackSize)
         /\ \A x : Own(n, x) = {}
  BY <1>1, EmptyHeap
<1> QED BY <1>2 DEF PacketHeap

\* So are all heaps when a stage is reset.
LEMMA ResetMemoryFacts ==
  /\ ResetMemorySystem \in [{0, 1, 2} -> Heap]
  /\ \A w \in {0, 1} : ResetMemorySystem[w] = PacketHeap(w)
  /\ Cut(ResetMemorySystem[2].units, Base(2), Base(2) + NormalSize) /\ ~ResetMemorySystem[2].dynamic
  /\ \A x : Own(ResetMemorySystem[2], x) = {}
<1>1. Base(2) \in Nat /\ NormalSize \in Nat \ {0} /\ FALSE \in BOOLEAN
  BY BaseFacts
<1>2. LET n == GV_InitMemorySystem(FALSE, Base(2), NormalSize) IN
         /\ n \in Heap /\ n.dynamic = FALSE /\ Cut(n.units, Base(2), Base(2) + NormalSize)
         /\ \A x : Own(n, x) = {}
  BY <1>1, EmptyHeap
<1>3. \A w \in {0, 1} : PacketHeap(w) \in Heap
  BY PacketHeapFacts
<1>4. /\ ResetMemorySystem[2] = GV_InitMemorySystem(FALSE, Base(2), NormalSize)
      /\ \A w \in {0, 1} : ResetMemorySystem[w] = PacketHeap(w)
  BY DEF ResetMemorySystem
<1>5. ResetMemorySystem \in [{0, 1, 2} -> Heap]
  <2>1. \A h \in {0, 1, 2} : ResetMemorySystem[h] \in Heap
    BY <1>2, <1>3, <1>4
  <2>2. ResetMemorySystem = [h \in {0, 1, 2} |-> ResetMemorySystem[h]]
    BY DEF ResetMemorySystem
  <2> QED BY <2>1, <2>2
<1> QED BY <1>2, <1>4, <1>5

\* The initial states.
LEMMA InitInv == ASSUME Init PROVE IInv
<1> USE DEF Init
<1>1. Memory
  <2>1. heap = ResetMemorySystem /\ codec = "closed"
    OBVIOUS
  <2>2. \A w \in {0, 1} : Cut(heap[w].units, Base(w), Base(w) + PackSize)
    BY <2>1, ResetMemoryFacts, PacketHeapFacts
  <2> QED BY <2>1, <2>2, ResetMemoryFacts DEF Memory
<1>2. packs = NoPacks /\ block = [n \in Prims \cup Works |-> Null] /\ block \in [Prims \cup Works -> Nat]
  BY DEF Null
<1>3. PointersRight
  <2>1. \A w \in {0, 1} : Owned(packs, heap[w], w)
    BY <1>2, ResetMemoryFacts, PacketHeapFacts DEF Owned, NoPacks
  <2>2. \A o \in Objects, w \in {0, 1} : packs[o][w] # Null => o \in Queued /\ codec = "closed"
    BY <1>2 DEF NoPacks
  <2>3. Has(block, heap[2])
    BY <1>2, ResetMemoryFacts DEF Has
  <2> QED BY <1>2, <2>1, <2>2, <2>3, Owners
<1>4. TypeOK /\ Typed
  <2>1. queue \in Seq(Objects) /\ IsInjective(queue) /\ Queued = {}
    BY DEF IsInjective, Queued
  <2>2. freeCount \in [Objects -> -1..FreeCount] /\ undraw \in 0..MaxUndraw
    BY BaseFacts
  <2>3. packs \in [Objects -> [{0, 1} -> Nat]]
    BY <1>2 DEF NoPacks, Null
  <2>4. TypeOK
    BY <2>1, <2>2 DEF TypeOK
  <2>5. list \in [{0, 1} -> SUBSET Piece] /\ gpu \in SUBSET Piece /\ {late, noslow, readError, stopped} \subseteq BOOLEAN
    OBVIOUS
  <2> QED BY <1>2, <2>1, <2>3, <2>4, <2>5 DEF Typed
<1>5. Counts /\ Modes /\ Built /\ Reads /\ Ended
  BY <1>2 DEF Counts, Modes, Built, Reads, Ended, NoPacks
<1> QED BY <1>1, <1>3, <1>4, <1>5 DEF IInv

\* The codec takes the packet heaps for itself, after the packets of all objects have been given
\* back.
LEMMA OpenCodecInv == ASSUME IInv, OpenCodec PROVE IInv'
<1> DEFINE free == FreePackets(heap, queue)
           temp == GV_InitMemorySystem(FALSE, Base(0), 2 * PackSize)
           made == GV_AllocMemory2(temp, Size["codec"], "codec")
           new == made.heap
<1>1. /\ phase = "game" /\ codec = "closed" /\ stage = "play" /\ ~noslow
      /\ codec' = "opened" /\ stopped' = TRUE /\ undraw' = MaxUndraw
      /\ packs' = Unpacked(queue)
      /\ UNCHANGED <<scene, noslow, readError, stage, killing, freeCount, queue, block, gvars, lists, frame, phase>>
  BY DEF OpenCodec, Making, ActorsRun, Paused
<1>2. queue \in Seq(Objects) /\ IsInjective(queue)
  BY DEF IInv, Typed
<1>3. /\ free[2] = heap[2] /\ free \in [{0, 1, 2} -> Heap]
      /\ \A o \in Objects, w \in {0, 1} : packs'[o][w] = IF o \in Range(queue) THEN Null ELSE packs[o][w]
      /\ packs' \in Packs
  BY <1>1, <1>2, FreePacketsFacts
<1>4. heap' = [[free EXCEPT ![0] = temp, ![1] = NoHeap] EXCEPT ![0] = new]
  <2>1. heap' = [GV_SetPacketTempMemory(free) EXCEPT ![0] = GV_AllocMemory2(@, Size["codec"], "codec").heap]
    BY DEF OpenCodec
  <2>2. GV_SetPacketTempMemory(free) = [free EXCEPT ![0] = temp, ![1] = NoHeap]
    BY DEF GV_SetPacketTempMemory, NoHeap
  <2>3. GV_SetPacketTempMemory(free)[0] = temp
    <3> DEFINE x == [free EXCEPT ![0] = temp, ![1] = NoHeap]
    <3>1. DOMAIN free = {0, 1, 2}
      BY <1>3
    <3>2. x[0] = temp
      <4> HIDE DEF free, temp
      <4> QED BY <3>1
    <3> QED BY <2>2, <3>2
  <2> HIDE DEF free, temp
  <2> QED BY <2>1, <2>2, <2>3
<1>5. temp \in Heap /\ temp.dynamic = FALSE /\ Cut(temp.units, Base(0), Base(0) + 2 * PackSize) /\ \A x : Own(temp, x) = {}
  <2>1. Base(0) \in Nat /\ 2 * PackSize \in Nat \ {0} /\ FALSE \in BOOLEAN
    BY BaseFacts
  <2>2. LET n == GV_InitMemorySystem(FALSE, Base(0), 2 * PackSize) IN
         /\ n \in Heap /\ n.dynamic = FALSE /\ Cut(n.units, Base(0), Base(0) + 2 * PackSize)
         /\ \A x : Own(n, x) = {}
    BY <2>1, EmptyHeap
  <2> QED BY <2>2
<1> HIDE DEF temp, free
<1>6. Made(temp, Base(0), Base(0) + 2 * PackSize, Size["codec"], "codec", new, made.start)
  <2>1. Size["codec"] \in Nat \ {0} /\ "codec" \in Names /\ Base(0) \in Nat \ {0}
    BY FrameAssumption, BaseFacts DEF Names
  <2> QED BY <1>5, <2>1, MadeFacts
<1> HIDE DEF made
<1>7. heap' \in [{0, 1, 2} -> Heap] /\ heap'[0] = new /\ heap'[1] = NoHeap /\ heap'[2] = heap[2]
  <2>1. new \in Heap /\ NoHeap \in Heap
    BY <1>6, NoHeapFacts DEF Made
  <2> QED BY <1>3, <1>4, <2>1
<1>8. Memory'
  <2>1. Cut(heap'[0].units, Base(0), Base(0) + 2 * PackSize) /\ ~heap'[0].dynamic
    BY <1>5, <1>6, <1>7 DEF Made
  <2>2. Memory
    BY StateFacts
  <2> QED BY <1>1, <1>7, <2>1, <2>2 DEF Memory, NoHeap
<1>9. \A o \in Objects, w \in {0, 1} : packs'[o][w] = Null
  <2>1. \A o \in Queued : o \in Range(queue)
    BY DEF Queued, Range
  <2> QED BY <1>3, <2>1, StateFacts
<1>10. \A x \in Objects : Own(new, x) = {}
  <2>1. "codec" \notin Objects
    BY FrameAssumption
  <2> QED BY <1>5, <1>6, <2>1 DEF Made
<1>11. PointersRight'
  <2>1. Own(NoHeap, 0) = {} /\ \A x : Own(NoHeap, x) = {}
    BY NoHeapFacts DEF Own
  <2>2. \A w \in {0, 1} : Owned(packs', heap'[w], w)
    BY <1>7, <1>9, <1>10, <2>1 DEF Owned
  <2>3. Has(block', heap'[2]) /\ block' \in [Prims \cup Works -> Nat]
    BY <1>1, <1>7, StateFacts
  <2> QED BY <1>9, <2>2, <2>3, OwnersNext
<1>12. Reads'
  <2>1. gpu' = gpu /\ clock' = clock /\ codec' = "opened"
    BY <1>1 DEF gvars, frame
  <2>2. ReadsOf(gpu, heap[2], 2, codec, clock) /\ clock \in {0, 1} /\ gpu \in SUBSET Piece
    BY StateFacts
  <2>3. ReadsOf(gpu, heap[2], 2, "opened", clock)
    BY <1>1, <2>2 DEF ReadsOf
  <2>4. ReadsOf(gpu, new, 0, "opened", clock)
    <3>1. \A b \in LiveIn(new) : b.by = "codec"
      <4>1. ASSUME NEW b \in LiveIn(new), b.by # "codec" PROVE FALSE
        <5>1. Own(new, b.by) = {}
          BY <1>5, <1>6, <4>1 DEF Made
        <5>2. b \in Own(new, b.by)
          BY DEF Own
        <5> QED BY <5>1, <5>2
      <4> QED BY <4>1
    <3> QED BY <3>1 DEF ReadsOf
  <2>5. ReadsOf(gpu, NoHeap, 1, "opened", clock)
    BY NoHeapFacts DEF ReadsOf
  <2>6. \A h \in {0, 1, 2} : ReadsOf(gpu', heap'[h], h, codec', clock')
    BY <1>7, <2>1, <2>3, <2>4, <2>5
  <2>7. codec' # "closed"
    BY <2>1
  <2> QED BY <2>6, <2>7, ReadsNext
<1>13. TypeOK' /\ Typed' /\ Counts'
  <2>1. undraw' \in 0..MaxUndraw
    BY <1>1, BaseFacts
  <2> QED BY <1>1, <1>3, <1>9, <2>1 DEF IInv, TypeOK, Typed, Counts, Packs, Queued, gvars, lists, frame
<1>14. Modes' /\ Ended' /\ Built'
  BY <1>1, NotBuilt DEF IInv, Modes, Ended, gvars, lists, frame
<1> QED BY <1>8, <1>11, <1>12, <1>13, <1>14 DEF IInv

\* The codec gives them back when the GPU is done.
LEMMA CloseCodecInv == ASSUME IInv, CloseCodec PROVE IInv'
<1>1. /\ phase = "game" /\ codec = "open"
      /\ codec' = "closed" /\ stopped' = FALSE /\ undraw' = MaxUndraw
      /\ heap' = [heap EXCEPT ![0] = PacketHeap(0), ![1] = PacketHeap(1)]
      /\ gpu' = {} /\ drawing' = -1
      /\ UNCHANGED <<scene, noslow, readError, stage, killing, packs, freeCount, queue, block, lists, frame, phase>>
  BY DEF CloseCodec, GV_ResetPacketMemory
<1>2. \A o \in Objects, w \in {0, 1} : packs[o][w] = Null
  BY <1>1, StateFacts
<1>3. heap' \in [{0, 1, 2} -> Heap] /\ (\A w \in {0, 1} : heap'[w] = PacketHeap(w)) /\ heap'[2] = heap[2]
  <2>1. PacketHeap(0) \in Heap /\ PacketHeap(1) \in Heap
    BY PacketHeapFacts
  <2> HIDE DEF PacketHeap
  <2> QED BY <1>1, <2>1, StateFacts
<1>4. Memory'
  <2>1. \A w \in {0, 1} : Cut(heap'[w].units, Base(w), Base(w) + PackSize)
    BY <1>3, PacketHeapFacts
  <2>2. Memory
    BY StateFacts
  <2> QED BY <1>1, <1>3, <2>1, <2>2 DEF Memory
<1>5. PointersRight'
  <2>1. \A w \in {0, 1} : Owned(packs', heap'[w], w)
    BY <1>1, <1>2, <1>3, PacketHeapFacts DEF Owned
  <2>2. Has(block', heap'[2]) /\ block' \in [Prims \cup Works -> Nat]
    BY <1>1, <1>3, StateFacts
  <2> QED BY <1>1, <1>2, <2>1, <2>2, OwnersNext
<1>6. Reads'
  BY <1>1, NoReads
<1>7. TypeOK' /\ Typed' /\ Counts'
  <2>1. undraw' \in 0..MaxUndraw
    BY <1>1, BaseFacts
  <2> QED BY <1>1, <2>1 DEF IInv, TypeOK, Typed, Counts, Queued, lists, frame
<1>8. Modes' /\ Ended' /\ Built'
  <2>1. clock \in {0, 1}
    BY StateFacts
  <2> QED BY <1>1, <2>1, NotBuilt DEF IInv, Modes, Ended, lists, frame
<1> QED BY <1>4, <1>5, <1>6, <1>7, <1>8 DEF IInv

\* A stage is reset when nothing is left of it and the GPU is done.
LEMMA ResetStageInv == ASSUME IInv, ResetStage PROVE IInv'
<1>1. /\ phase = "game" /\ stage = "killing" /\ killing = 0
      /\ stage' = "loading" /\ queue' = << >>
      /\ list' = [w \in {0, 1} |-> {}] /\ screen' = {}
      /\ UNCHANGED <<scene, noslow, readError, stopped, codec, killing, packs, freeCount, gvars, frame, undraw, phase>>
  BY DEF ResetStage
<1>2. PICK n \in Works :
        LET made == GV_AllocMemory2(ResetMemorySystem[2], Size[n], n)
        IN heap' = [ResetMemorySystem EXCEPT ![2] = made.heap] /\ block' = [block EXCEPT ![n] = made.start]
  BY DEF ResetStage
<1> DEFINE made == GV_AllocMemory2(ResetMemorySystem[2], Size[n], n)
           new == made.heap
           at == made.start
<1>3. heap' = [ResetMemorySystem EXCEPT ![2] = new] /\ block' = [block EXCEPT ![n] = at]
  BY <1>2
<1>4. codec = "closed" /\ ~noslow /\ ~stopped /\ ~late /\ gpu = {} /\ queue = << >> /\ (\A x \in Prims \cup Works : block[x] = Null)
  BY <1>1, StateFacts DEF IInv, Modes, Ended
<1>5. \A o \in Objects, w \in {0, 1} : packs[o][w] = Null
  <2>1. Queued = {}
    BY <1>4 DEF Queued
  <2> QED BY <2>1, StateFacts
<1>6. Made(ResetMemorySystem[2], Base(2), Base(2) + NormalSize, Size[n], n, new, at)
  <2>1. Size[n] \in Nat \ {0} /\ n \in Names /\ Base(2) \in Nat \ {0}
    BY FrameAssumption, BaseFacts DEF Names
  <2>2. ResetMemorySystem[2] \in Heap /\ Cut(ResetMemorySystem[2].units, Base(2), Base(2) + NormalSize)
    BY ResetMemoryFacts
  <2> QED BY <2>1, <2>2, MadeFacts
<1> HIDE DEF made
<1>7. heap' \in [{0, 1, 2} -> Heap] /\ heap'[2] = new /\ \A w \in {0, 1} : heap'[w] = PacketHeap(w)
  <2>1. new \in Heap
    BY <1>6 DEF Made
  <2> QED BY <1>3, <2>1, ResetMemoryFacts
<1>8. block' \in [Prims \cup Works -> Nat] /\ block'[n] = at /\ \A x \in (Prims \cup Works) \ {n} : block'[x] = block[x]
  <2>1. at \in Nat
    BY <1>6 DEF Made
  <2> QED BY <1>3, <2>1, StateFacts
<1>9. Memory'
  <2>1. \A w \in {0, 1} : Cut(heap'[w].units, Base(w), Base(w) + PackSize)
    BY <1>7, PacketHeapFacts
  <2>2. Cut(heap'[2].units, Base(2), Base(2) + NormalSize) /\ ~heap'[2].dynamic
    BY <1>6, <1>7, ResetMemoryFacts DEF Made
  <2> QED BY <1>1, <1>4, <1>7, <2>1, <2>2 DEF Memory
<1>10. PointersRight'
  <2>1. \A w \in {0, 1} : Owned(packs', heap'[w], w)
    BY <1>1, <1>5, <1>7, PacketHeapFacts DEF Owned
  <2>2. Has(block', heap'[2])
    <3> SUFFICES ASSUME NEW x \in Prims \cup Works PROVE Own(new, x) = IF block'[x] = Null THEN {} ELSE {Read(block'[x], x)}
      BY <1>7 DEF Has
    <3>1. Own(new, x) = IF x = n /\ at # Null THEN {[start |-> at, size |-> Size[n], by |-> n]} ELSE {}
      BY <1>6, ResetMemoryFacts DEF Made
    <3> QED BY <1>4, <1>8, <3>1 DEF Read
  <2> QED BY <1>1, <1>5, <1>8, <2>1, <2>2, OwnersNext
<1>11. Reads'
  BY <1>1, <1>4, NoReads DEF gvars
<1>12. TypeOK' /\ Typed' /\ Counts'
  <2>1. queue' \in Seq(Objects) /\ IsInjective(queue') /\ Queued' = {}
    BY <1>1 DEF IsInjective, Queued
  <2> QED BY <1>1, <1>8, <2>1 DEF IInv, TypeOK, Typed, Counts, gvars, frame
<1>13. Modes' /\ Ended' /\ Built'
  <2>1. clock \in {0, 1}
    BY StateFacts
  <2> QED BY <1>1, <1>4, <2>1, NotBuilt DEF IInv, Modes, Ended, gvars, frame
<1> QED BY <1>9, <1>10, <1>11, <1>12, <1>13 DEF IInv

-----------------------------------------------------------------------------
(* The end of a frame. *)

\* No list is built when the channel is stopped or the game is late.
LEMMA EndFrameLeft == ASSUME IInv, EndFrame, stopped \/ late PROVE IInv'
<1>1. /\ phase = "game" /\ phase' = "start"
      /\ stage = "killing" /\ killing < 3 => queue = << >> /\ \A n \in DOMAIN block : block[n] = Null
      /\ UNCHANGED <<lists, store, gvars, frame, mode, undraw>>
  BY DEF EndFrame
<1>2. list[clock] = {} /\ Queued' = Queued
  BY <1>1 DEF IInv, Modes, Queued, store
<1>3. Memory' /\ Reads' /\ PointersRight' /\ Counts'
  BY <1>1, <1>2, KeepMemory, KeepReads, KeepPointers, KeepCounts DEF IInv, Typed, gvars, frame, mode, store
<1>4. TypeOK' /\ Typed'
  BY <1>1, <1>2 DEF IInv, TypeOK, Typed, gvars, lists, frame, mode, store
<1>5. Built'
  BY <1>1, <1>2 DEF Built, lists, frame
<1>6. Modes'
  BY <1>1, <1>2 DEF IInv, Modes, gvars, lists, frame, mode
<1>7. Ended'
  <2>1. list'[clock'] = {} /\ stage' = stage /\ killing' = killing /\ queue' = queue /\ block' = block /\ gpu' = gpu
    BY <1>1, <1>2 DEF gvars, lists, frame, mode, store
  <2>2. Ended
    BY DEF IInv
  <2>3. stage = "killing" /\ (killing <= 1 \/ killing = 2) => queue = << >> /\ \A n \in DOMAIN block : block[n] = Null
    <3>1. killing <= 1 \/ killing = 2 => killing < 3
      BY DEF IInv, TypeOK
    <3> QED BY <1>1, <3>1
  <2> QED BY <2>1, <2>2, <2>3 DEF Ended
<1> QED BY <1>3, <1>4, <1>5, <1>6, <1>7 DEF IInv

\* The list is built of blocks that are there, old and new; nothing that is read goes to anybody
\* else.
LEMMA EndFrameBuilt == ASSUME IInv, EndFrame, ~(stopped \/ late) PROVE IInv'
<1>1. /\ phase = "game" /\ phase' = "start"
      /\ stage = "killing" /\ killing < 3 => queue = << >> /\ \A n \in DOMAIN block : block[n] = Null
      /\ UNCHANGED <<gvars, frame, mode, undraw>>
  BY DEF EndFrame
<1> DEFINE m == heap[clock]
           start(seen) == [heap |-> heap[clock], packs |-> packs, count |-> freeCount, seen |-> seen, shown |-> {}]
           read(x) == {Read(x.packs[o][clock], o) : o \in x.shown}
                      \cup (IF x.shown = {} THEN {} ELSE Divided(x.heap))
                      \cup {Read(block[p], p) : p \in {p \in Prims : block[p] # Null}}
           after(x, seen) == /\ screen' = seen
                             /\ heap' = [heap EXCEPT ![clock] = x.heap]
                             /\ packs' = x.packs /\ freeCount' = x.count
                             /\ list' = [list EXCEPT ![clock] = read(x)]
                             /\ UNCHANGED <<queue, block>>
           from == Base(clock)
           to == To(clock, codec)
<1>2. PICK seen \in {view \cap Queued : view \in Views} : after(BoundObjs(start(seen))[Len(queue)], seen)
  BY Zenon DEF EndFrame
<1>3. seen \subseteq Objects
  BY FrameAssumption
<1>4. codec = "closed" /\ clock \in {0, 1} /\ queue \in Seq(Objects) /\ packs \in Packs /\ Queued \subseteq Objects
  BY DEF IInv, Modes, TypeOK, Typed, Packs
<1>5. m \in Heap /\ from \in Nat \ {0} /\ Cut(m.units, from, to) /\ clock \in {0, 1, 2} /\ clock # 2
  BY <1>4, StateFacts, MemoryFacts
<1>6. Bound(m, from, to, start(seen))
  <2> DEFINE x == start(seen)
  <2>1. x \in Bounding
    BY <1>3, <1>4, <1>5 DEF Bounding, IInv, TypeOK
  <2>2. x.heap = m /\ x.packs = packs /\ x.count = freeCount /\ x.seen = seen /\ x.shown = {}
    OBVIOUS
  <2>3. from \in Nat
    BY <1>5
  <2>4. Grown(m, m)
    <3> HIDE DEF m, from, to
    <3> QED BY <1>5, <2>3, GrownSelf
  <2>5. Owned(packs, m, clock) /\ \A o \in Objects : packs[o][clock] # Null => o \in Queued
    BY <1>4, StateFacts
  <2>6. CountsOf(packs, freeCount)
    BY DEF IInv, Counts, CountsOf
  <2>7. /\ x.heap.dynamic = m.dynamic /\ Cut(x.heap.units, from, to) /\ Grown(m, x.heap)
        /\ Owned(x.packs, x.heap, clock) /\ CountsOf(x.packs, x.count)
        /\ \A o \in Objects : x.packs[o][1 - clock] = packs[o][1 - clock]
        /\ \A o \in Objects : x.packs[o][clock] # Null => o \in Queued
        /\ x.shown \subseteq x.seen /\ \A o \in x.shown : x.packs[o][clock] # Null
    <3> HIDE DEF x, m, from, to
    <3> QED BY <1>5, <2>2, <2>4, <2>5, <2>6
  <2> HIDE DEF m, from, to
  <2> QED BY <2>1, <2>7, Zenon DEF Bound, x
<1> DEFINE x == BoundObjs(start(seen))[Len(queue)]
<1>7. Bound(m, from, to, x) /\ (queue = << >> => x = start(seen))
  <2> HIDE DEF m, from, to, start
  <2> QED BY <1>4, <1>5, <1>6, BoundFacts
<1>8. queue = << >> => x.shown = {}
  BY <1>7
<1>9. after(x, seen)
  BY <1>2
<1> HIDE DEF x, start
<1>10. /\ x \in Bounding /\ x.heap \in Heap /\ x.packs \in Packs /\ x.count \in [Objects -> -1..FreeCount] /\ x.shown \subseteq Objects
       /\ x.heap.dynamic = m.dynamic /\ Cut(x.heap.units, from, to) /\ Grown(m, x.heap)
       /\ Owned(x.packs, x.heap, clock) /\ CountsOf(x.packs, x.count)
       /\ \A o \in Objects : x.packs[o][1 - clock] = packs[o][1 - clock]
       /\ \A o \in Objects : x.packs[o][clock] # Null => o \in Queued
       /\ \A o \in x.shown : x.packs[o][clock] # Null
  BY <1>7 DEF Bound, Bounding
<1>11. /\ heap' = [heap EXCEPT ![clock] = x.heap] /\ packs' = x.packs /\ freeCount' = x.count
       /\ list' = [list EXCEPT ![clock] = read(x)] /\ screen' = seen /\ queue' = queue /\ block' = block
  BY <1>9
<1> HIDE DEF after
<1>12. heap' \in [{0, 1, 2} -> Heap] /\ heap'[clock] = x.heap /\ \A h \in {0, 1, 2} \ {clock} : heap'[h] = heap[h]
  BY <1>5, <1>10, <1>11, StateFacts
<1>13. Memory'
  <2>1. Cut(heap'[clock].units, Base(clock), Base(clock) + PackSize)
    BY <1>4, <1>10, <1>12 DEF To
  <2>2. Memory
    BY StateFacts
  <2> HIDE DEF m, from, to
  <2> QED BY <1>1, <1>4, <1>12, <2>1, <2>2 DEF Memory, mode
<1>14. Queued' = Queued
  BY <1>11 DEF Queued
<1>15. PointersRight'
  <2>1. ASSUME NEW w \in {0, 1} PROVE Owned(packs', heap'[w], w) /\ \A o \in Objects : packs'[o][w] # Null => o \in Queued
    <3>1. Owned(packs, heap[w], w) /\ \A o \in Objects : packs[o][w] # Null => o \in Queued
      BY StateFacts
    <3>2. CASE w = clock
      BY <1>10, <1>11, <1>12, <3>2
    <3>3. CASE w # clock
      <4>1. heap'[w] = heap[w] /\ w = 1 - clock
        BY <1>4, <1>12, <3>3
      <4>2. \A o \in Objects : packs'[o][w] = packs[o][w]
        BY <1>10, <1>11, <4>1
      <4> QED BY <3>1, <4>1, <4>2 DEF Owned
    <3> QED BY <3>2, <3>3
  <2>2. \A o \in Objects, w \in {0, 1} : packs'[o][w] # Null => o \in Queued' /\ codec' = "closed"
    BY <1>1, <1>4, <1>14, <2>1 DEF mode
  <2>3. heap'[2] = heap[2]
    BY <1>5, <1>12
  <2>4. Has(block', heap'[2]) /\ block' \in [Prims \cup Works -> Nat]
    BY <1>11, <2>3, StateFacts
  <2> QED BY <2>1, <2>2, <2>4, OwnersNext
<1>16. Counts'
  BY <1>10, <1>11 DEF Counts, CountsOf
<1>17. Reads'
  <2>1. (\A h \in {0, 1, 2} : ReadsOf(gpu, heap[h], h, codec, clock)) /\ gpu \in SUBSET Piece
    BY StateFacts
  <2>2. ReadsOf(gpu, x.heap, clock, codec, clock)
    <3>1. ReadsOf(gpu, m, clock, codec, clock) /\ ~(codec = "opened" /\ clock # 2) /\ ~(codec = "closed" /\ clock = 1 - clock)
      BY <1>4, <1>5, <2>1
    <3>2. from \in Nat
      BY <1>5
    <3> HIDE DEF m, from, to
    <3> QED BY <1>5, <1>10, <2>1, <3>1, <3>2, GrownReads
  <2>3. \A h \in {0, 1, 2} : ReadsOf(gpu, heap'[h], h, codec, clock)
    BY <1>12, <2>1, <2>2
  <2>4. gpu' = gpu /\ clock' = clock /\ codec' = codec /\ late' = late
    BY <1>1 DEF gvars, frame, mode
  <2>5. late' /\ codec' = "closed" => Away(gpu', clock')
    BY <2>4, StateFacts
  <2> QED BY <2>3, <2>4, <2>5, ReadsNext
<1>18. ASSUME NEW r \in read(x)
       PROVE  /\ r \in Piece
              /\ \/ r \in LiveIn(heap'[clock]) \cup LiveIn(heap'[2])
                 \/ r.by = "divide" /\ \E b \in FreeIn(heap'[clock]) : r.start = b.start /\ r.size = b.size
  <2>1. CASE r \in {Read(x.packs[o][clock], o) : o \in x.shown}
    <3>1. PICK o \in x.shown : r = Read(x.packs[o][clock], o)
      BY <2>1
    <3>2. x.packs[o][clock] # Null /\ o \in Objects /\ x.packs[o][clock] \in Nat
      BY <1>4, <1>10 DEF Packs
    <3>3. Own(x.heap, o) = {r}
      BY <1>10, <3>1, <3>2 DEF Owned
    <3>4. r \in LiveIn(heap'[clock])
      BY <1>12, <3>3 DEF Own
    <3>5. r \in Piece
      <4>1. o \in Names \ Works /\ Size[o] \in Nat \ {0}
        BY <3>2, FrameAssumption DEF Names
      <4> QED BY <3>1, <3>2, <4>1 DEF Read, Piece, Null
    <3> QED BY <3>4, <3>5
  <2>2. CASE r \in Divided(x.heap)
    <3>1. PICK i \in 1..InUse(x.heap) : x.heap.units[i].state = "free"
                                        /\ r = [start |-> x.heap.units[i].start, size |-> SizeOf(x.heap, i), by |-> "divide"]
      BY <2>2 DEF Divided
    <3> DEFINE b == BlockAt(x.heap, i)
    <3>2. b \in FreeIn(x.heap) /\ r.start = b.start /\ r.size = b.size /\ r.by = "divide"
          /\ r = [start |-> b.start, size |-> b.size, by |-> "divide"]
      BY <3>1 DEF FreeIn, BlockAt
    <3>3. b.start \in Nat \ {0} /\ b.size \in Nat \ {0}
      <4>1. Loose(x.heap.units, from, to) /\ from \in Nat
        BY <1>5, <1>10, CutLoose
      <4>2. b.start \in Nat /\ b.size \in Nat \ {0} /\ from <= b.start
        <5> HIDE DEF b, from, to
        <5> QED BY <3>2, <4>1, HeapBlocks
      <4> HIDE DEF b
      <4> QED BY <1>5, <4>2
    <3> HIDE DEF b
    <3> QED BY <1>12, <3>2, <3>3 DEF Piece
  <2>3. CASE r \in {Read(block[p], p) : p \in {p \in Prims : block[p] # Null}}
    <3>1. PICK p \in Prims : block[p] # Null /\ r = Read(block[p], p)
      BY <2>3
    <3>2. Own(heap[2], p) = {r}
      BY <3>1, StateFacts DEF Has
    <3>3. r \in LiveIn(heap'[2])
      BY <1>5, <1>12, <3>2 DEF Own
    <3>4. r \in Piece
      <4>1. p \in Names \ Works /\ Size[p] \in Nat \ {0} /\ block[p] \in Nat
        BY <3>1, FrameAssumption, StateFacts DEF Names
      <4> QED BY <3>1, <4>1 DEF Read, Piece, Null
    <3> QED BY <3>3, <3>4
  <2> QED BY <2>1, <2>2, <2>3
<1>19. queue = << >> /\ (\A n \in DOMAIN block : block[n] = Null) => read(x) = {}
  <2>1. DOMAIN block = Prims \cup Works
    BY StateFacts
  <2> QED BY <1>8, <2>1
<1> HIDE DEF read
<1>20. list' \in [{0, 1} -> SUBSET Piece] /\ list'[clock] = read(x)
  BY <1>4, <1>11, <1>18, StateFacts
<1>21. Built'
  BY <1>1, <1>18, <1>20 DEF Built, frame
<1>22. TypeOK' /\ Typed'
  <2>1. screen' \subseteq Objects
    BY <1>3, <1>11
  <2> QED BY <1>1, <1>10, <1>11, <1>14, <1>20, <2>1 DEF IInv, TypeOK, Typed, Packs, gvars, frame, mode
<1>23. Modes'
  BY <1>1 DEF IInv, Modes, gvars, frame, mode
<1>24. Ended'
  <2>1. clock' = clock /\ stage' = stage /\ killing' = killing /\ queue' = queue /\ block' = block /\ gpu' = gpu
    BY <1>1, <1>11 DEF gvars, frame, mode
  <2>2. Ended
    BY DEF IInv
  <2>3. stage = "killing" /\ (killing <= 1 \/ killing = 2) =>
           queue = << >> /\ (\A n \in DOMAIN block : block[n] = Null) /\ list'[clock'] = {}
    <3>1. killing <= 1 \/ killing = 2 => killing < 3
      BY DEF IInv, TypeOK
    <3> QED BY <1>1, <1>19, <1>20, <2>1, <3>1
  <2> QED BY <2>1, <2>2, <2>3 DEF Ended
<1> QED BY <1>13, <1>15, <1>16, <1>17, <1>21, <1>22, <1>23, <1>24 DEF IInv

-----------------------------------------------------------------------------
(* The start of a frame. *)

\* A heap of no size has no block of anybody.
LEMMA NoHeapPointer == ASSUME NEW o \in Names, NEW x PROVE Pointer(NoHeap, o, x) = x
<1>1. NoHeap.units = <<Unit(0, "free"), Unit(0, "used")>>
  BY DEF NoHeap, GV_InitMemorySystem, Null
<1>2. o \notin {"free", "used"}
  BY NamesFacts
<1>3. {k \in DOMAIN NoHeap.units : NoHeap.units[k].state = o} = {}
  BY <1>1, <1>2 DEF Unit
<1> QED BY <1>3 DEF Pointer, Lowest

\* What lies outside of a heap is read without harm.
LEMMA OutsideReads ==
  ASSUME NEW g \in SUBSET Piece, NEW n, NEW from \in Nat, NEW to \in Nat, Cut(n.units, from, to),
         \A r \in g : r.start + r.size <= from \/ to <= r.start, NEW h, NEW cd, NEW ck
  PROVE  ReadsOf(g, n, h, cd, ck)
<1>1. \A b \in LiveIn(n) \cup FreeIn(n) : b.start \in Nat /\ b.size \in Nat \ {0} /\ from <= b.start /\ b.start + b.size <= to
  <2>1. Loose(n.units, from, to)
    BY CutLoose
  <2> QED BY <2>1, HeapBlocks
<1>2. \A r \in g : r.start \in Nat /\ r.size \in Nat
  BY DEF Piece
<1>3. \A r \in g : \A b \in LiveIn(n) \cup FreeIn(n) : ~Overlap(r, b)
  BY <1>1, <1>2 DEF Overlap
<1> QED BY <1>3 DEF ReadsOf

\* The heap n of list w and the pointers q are what a clearing makes of them.
Cleared(w, n, q) ==
  /\ n \in Heap /\ n.dynamic = heap[w].dynamic
  /\ codec = "closed" \/ w # 1 => Cut(n.units, Base(w), To(w, codec))
  /\ codec # "closed" /\ w = 1 => n = NoHeap
  /\ q \in Packs /\ Owned(q, n, w)
  /\ \A o \in Objects : q[o][w] # Null <=> packs[o][w] # Null
  /\ \A o \in Objects : q[o][1 - w] = packs[o][1 - w]

ClearedPacks(w, n) == [o \in Objects |-> [packs[o] EXCEPT ![w] = Pointer(n, o, @)]]

\* What the clearing of a list's heap does to it and to the pointers into it.
LEMMA ClearedFacts ==
  ASSUME IInv, NEW w \in {0, 1}
  PROVE  Cleared(w, GV_ClearMemorySystem(heap[w]), ClearedPacks(w, GV_ClearMemorySystem(heap[w])))
<1> DEFINE m == heap[w]
           n == GV_ClearMemorySystem(m)
           q == ClearedPacks(w, n)
           from == Base(w)
           to == To(w, codec)
<1>1. m \in Heap /\ from \in Nat \ {0} /\ from \in Nat /\ (codec = "closed" \/ w # 1 => Cut(m.units, from, to)) /\ packs \in Packs
  BY StateFacts, MemoryFacts
<1>2. codec # "closed" /\ w = 1 => m = NoHeap
  BY StateFacts, MemoryFacts
<1>3. CASE codec = "closed" \/ w # 1
  <2>1. n \in Heap /\ n.dynamic = m.dynamic /\ Cut(n.units, from, to) /\ Carries(m, n)
    <3> HIDE DEF m, from, to
    <3> QED BY <1>1, <1>3, ClearMemorySystem
  <2>2. Loose(n.units, from, to)
    BY <2>1, CutLoose
  <2>3. ASSUME NEW o \in Objects
        PROVE  /\ packs[o][w] = Null => Own(n, o) = {} /\ Pointer(n, o, packs[o][w]) = Null
               /\ packs[o][w] # Null => /\ Pointer(n, o, packs[o][w]) \in Nat \ {0}
                                        /\ Own(n, o) = {Read(Pointer(n, o, packs[o][w]), o)}
    <3>1. o \in Names
      BY DEF Names
    <3>2. Own(m, o) = IF packs[o][w] = Null THEN {} ELSE {Read(packs[o][w], o)}
      BY StateFacts DEF Owned
    <3> DEFINE x == packs[o][w]
               p == Pointer(n, o, x)
    <3>3. /\ Own(n, o) = {} => p = x
          /\ \A c : Own(n, o) = {c} => p = c.start
      <4>1. /\ {b \in LiveIn(n) : b.by = o} = {} => p = x
            /\ \A c : {b \in LiveIn(n) : b.by = o} = {c} => p = c.start
        <5>1. from \in Nat /\ Cut(n.units, from, to)
          BY <1>1, <2>1
        <5> HIDE DEF n, from, to, x
        <5> QED BY <3>1, <5>1, PointerFacts
      <4> QED BY <4>1, Zenon DEF Own
    <3>4. /\ Own(m, o) = {} => Own(n, o) = {}
          /\ \A b : Own(m, o) = {b} => \E c : Own(n, o) = {c} /\ c.size = b.size /\ c.by = b.by
      <4> HIDE DEF n, m
      <4> QED BY <2>1, <3>1 DEF Carries, Own
    <3>5. CASE x = Null
      BY <3>2, <3>3, <3>4, <3>5
    <3>6. CASE x # Null
      <4>1. Own(m, o) = {Read(x, o)}
        BY <3>2, <3>6
      <4> HIDE DEF n, m, x
      <4>2. \E c : Own(n, o) = {c} /\ c.size = Read(x, o).size /\ c.by = Read(x, o).by
        BY <3>4, <4>1
      <4>3. PICK c : Own(n, o) = {c} /\ c.size = Read(x, o).size /\ c.by = Read(x, o).by
        BY <4>2
      <4>4. c \in LiveIn(n)
        BY <4>3 DEF Own
      <4>5. c.start \in Nat /\ from <= c.start /\ c = [start |-> c.start, size |-> c.size, by |-> c.by]
        <5> HIDE DEF from, to
        <5> QED BY <1>1, <2>2, <4>4, HeapBlocks
      <4>6. p = c.start /\ c = Read(p, o) /\ p \in Nat \ {0}
        <5>1. p = c.start
          BY <3>3, <4>3
        <5> HIDE DEF p
        <5> QED BY <1>1, <4>3, <4>5, <5>1 DEF Read
      <4> HIDE DEF p
      <4>7. Own(n, o) = {Read(p, o)}
        BY <4>3, <4>6
      <4> QED BY <4>6, <4>7, <3>6 DEF p, x
    <3> QED BY <3>5, <3>6
  <2> HIDE DEF n
  <2>4. \A o \in Objects : q[o][w] = Pointer(n, o, packs[o][w]) /\ q[o][1 - w] = packs[o][1 - w] /\ q[o] \in [{0, 1} -> Nat]
    BY <1>1, <2>3 DEF Packs, ClearedPacks, Null
  <2>5. q \in Packs
    BY <2>4 DEF Packs, ClearedPacks
  <2>6. Owned(q, n, w)
    BY <2>3, <2>4 DEF Owned, Null
  <2>7. \A o \in Objects : q[o][w] # Null <=> packs[o][w] # Null
    BY <2>3, <2>4 DEF Null
  <2> HIDE DEF q
  <2>8. Cleared(w, n, q)
    BY <1>3, <2>1, <2>4, <2>5, <2>6, <2>7 DEF Cleared
  <2> QED BY <2>8 DEF q, n
<1>4. CASE codec # "closed" /\ w = 1
  <2>1. n = NoHeap /\ LiveIn(NoHeap) = {} /\ NoHeap \in Heap /\ m = NoHeap
    BY <1>2, <1>4, NoHeapFacts
  <2> HIDE DEF n, m
  <2>2. \A o \in Objects : Pointer(n, o, packs[o][w]) = packs[o][w]
    BY <2>1, NoHeapPointer DEF Names
  <2>3. \A o \in Objects : q[o] = packs[o]
    BY <1>1, <2>2 DEF ClearedPacks, Packs
  <2>4. q = packs
    BY <1>1, <2>3 DEF ClearedPacks, Packs
  <2>5. Owned(packs, m, w)
    BY StateFacts DEF m
  <2> HIDE DEF q
  <2>6. Cleared(w, n, q)
    BY <1>1, <1>4, <2>1, <2>4, <2>5 DEF Cleared, m
  <2> QED BY <2>6 DEF q, n, m
<1> QED BY <1>3, <1>4

\* Of the lists' heaps and the normal heap, in which order they lie.
LEMMA Ranges == ASSUME codec = "closed", NEW w \in {0, 1}
                PROVE /\ Base(w) + PackSize = To(w, codec) /\ To(w, codec) \in Nat
                      /\ To(w, codec) <= Base(1 - w) \/ Base(w) >= To(1 - w, codec)
                      /\ To(w, codec) <= Base(2)
<1>1. 2 \notin {0, 1} /\ 1 - w \in {0, 1}
  OBVIOUS
<1>2. To(w, codec) = Base(w) + PackSize /\ To(1 - w, codec) = Base(1 - w) + PackSize
  BY <1>1 DEF To
<1> QED BY <1>2, BaseFacts

\* A block is not both owned and free.
LEMMA LiveNotFree == ASSUME NEW m, NEW b \in LiveIn(m) PROVE b \notin FreeIn(m)
<1>1. b.by # "free"
  BY DEF LiveIn, IsLive, BlockAt
<1>2. \A c \in FreeIn(m) : c.by = "free"
  BY DEF FreeIn, BlockAt
<1> QED BY <1>1, <1>2

\* The list that the GPU begins with is all that it has to read: the frame before built it, of
\* what has not moved since, and not where the new list will be.
LEMMA BegunReads ==
  ASSUME IInv, codec = "closed", phase = "start", NEW w \in {0, 1}, w = 1 - clock,
         NEW n, Cut(n.units, Base(w), To(w, codec)),
         NEW k, Cut(k.units, Base(2), To(2, codec)), LiveIn(k) = LiveIn(heap[2])
  PROVE  /\ ReadsOf(list[clock], heap[clock], clock, "closed", w)
         /\ ReadsOf(list[clock], n, w, "closed", w)
         /\ ReadsOf(list[clock], k, 2, "closed", w)
         /\ Away(list[clock], w)
<1> DEFINE g == list[clock]
           Source(r, h, b) ==
             /\ h \in {clock, 2} /\ b \in LiveIn(heap[h]) \cup FreeIn(heap[h]) /\ r.start = b.start /\ r.size = b.size
             /\ b \in LiveIn(heap[h]) => r = b
             /\ b \in FreeIn(heap[h]) => h = clock
<1>1. /\ g \in SUBSET Piece /\ clock \in {0, 1} /\ Memory /\ clock = 1 - w
      /\ \A h \in {0, 1, 2} : Base(h) \in Nat \ {0} /\ Base(h) \in Nat /\ To(h, codec) \in Nat
  BY StateFacts, MemoryFacts
<1>2. \A r \in g : \/ r \in LiveIn(heap[clock]) \cup LiveIn(heap[2])
                   \/ r.by = "divide" /\ \E b \in FreeIn(heap[clock]) : r.start = b.start /\ r.size = b.size
  BY DEF IInv, Built
<1>3. ASSUME NEW r \in g
      PROVE  \E h, b : Source(r, h, b)
  <2>1. CASE r \in LiveIn(heap[clock])
    <3>1. \A b \in FreeIn(heap[clock]) : b.by = "free"
      BY DEF FreeIn, BlockAt
    <3> QED BY <2>1
  <2>2. CASE r \in LiveIn(heap[2])
    <3>1. r \notin FreeIn(heap[2])
      BY <2>2, LiveNotFree
    <3> QED BY <2>2, <3>1
  <2>3. CASE \E b \in FreeIn(heap[clock]) : r.start = b.start /\ r.size = b.size
    <3>1. PICK b \in FreeIn(heap[clock]) : r.start = b.start /\ r.size = b.size
      BY <2>3
    <3>2. b \notin LiveIn(heap[clock])
      BY <3>1, LiveNotFree
    <3> QED BY <3>1, <3>2
  <2> QED BY <1>2, <2>1, <2>2, <2>3
<1> HIDE DEF g
<1>4. \A r \in g : r.start \in Nat /\ r.size \in Nat
  BY <1>1 DEF Piece
<1>5. ASSUME NEW r \in g
      PROVE  \/ Base(clock) <= r.start /\ r.start + r.size <= To(clock, codec)
             \/ Base(2) <= r.start /\ r.start + r.size <= To(2, codec)
  <2>4. PICK h, b : Source(r, h, b)
    BY <1>3
  <2>2. h \in {0, 1, 2}
    BY <1>1, <2>4
  <2>3. Base(h) <= b.start /\ b.start + b.size <= To(h, codec)
    BY <1>1, <2>2, <2>4, MemoryBlocks
  <2> QED BY <2>4, <2>3
<1>6. \A r \in g : r.start + r.size <= Base(w) \/ To(w, codec) <= r.start
  <2>1. /\ To(w, codec) <= Base(1 - w) \/ Base(w) >= To(1 - w, codec)
        /\ To(w, codec) <= Base(2)
    BY Ranges
  <2> DEFINE from == Base(w)
             to == To(w, codec)
             b == Base(clock)
             t == To(clock, codec)
             c == Base(2)
             d == To(2, codec)
  <2>2. /\ {from, to, b, t, c, d} \subseteq Nat /\ to <= c /\ ((to <= b) \/ (from >= t))
        /\ \A r \in g : r.start \in Nat /\ r.size \in Nat /\ ((b <= r.start /\ r.start + r.size <= t) \/ (c <= r.start /\ r.start + r.size <= d))
    BY <1>1, <1>4, <1>5, <2>1
  <2> HIDE DEF from, to, b, t, c, d
  <2>3. \A r \in g : r.start + r.size <= from \/ to <= r.start
    BY <2>2
  <2> QED BY <2>3 DEF from, to
<1>7. Away(g, w)
  <2>1. To(w, codec) = Base(w) + PackSize
    BY Ranges
  <2> QED BY <1>6, <2>1 DEF Away
<1>8. ReadsOf(g, n, w, "closed", w)
  <2>1. Base(w) \in Nat /\ To(w, codec) \in Nat
    BY <1>1
  <2> QED BY <1>1, <1>6, <2>1, OutsideReads
<1>9. ReadsOf(g, heap[clock], clock, "closed", w)
  <2>1. ASSUME NEW r \in g, NEW b \in LiveIn(heap[clock]), Overlap(r, b) PROVE b = r
    <3>1. PICK h, c : Source(r, h, c)
      BY <1>3
    <3>2. Overlap(c, b)
      BY <2>1, <3>1 DEF Overlap
    <3>3. h = clock /\ c = b
      BY <1>1, <3>1, <3>2, MemoryBlocks
    <3> QED BY <3>1, <3>3
  <2> QED BY <1>1, <2>1 DEF ReadsOf
<1>10. ReadsOf(g, k, 2, "closed", w)
  <2>1. Loose(k.units, Base(2), To(2, codec)) /\ Base(2) \in Nat
    BY <1>1, CutLoose
  <2>2. /\ \A b \in LiveIn(k) \cup FreeIn(k) : b.start \in Nat /\ b.size \in Nat \ {0} /\ Base(2) <= b.start
        /\ \A b, c \in LiveIn(k) \cup FreeIn(k) : Overlap(b, c) => b = c
    BY <2>1, HeapBlocks
  <2>3. ASSUME NEW r \in g, NEW b \in LiveIn(k) \cup FreeIn(k), Overlap(r, b) PROVE b = r /\ b \in LiveIn(k)
    <3>1. PICK h, c : Source(r, h, c)
      BY <1>3
    <3>2. CASE h = 2
      <4>1. c \in LiveIn(k) /\ r = c
        BY <1>1, <3>1, <3>2
      <4>2. b = c
        BY <2>2, <2>3, <4>1
      <4> QED BY <4>1, <4>2
    <3>3. CASE h = clock
      <4>1. c.start + c.size <= To(clock, codec)
        BY <1>1, <3>1, <3>3, MemoryBlocks
      <4>2. To(clock, codec) <= Base(2)
        BY <1>1, Ranges
      <4>3. b.start \in Nat /\ b.size \in Nat /\ Base(2) <= b.start /\ b.start < r.start + r.size
        BY <2>2, <2>3 DEF Overlap
      <4> QED BY <1>1, <1>4, <3>1, <4>1, <4>2, <4>3
    <3> QED BY <3>1, <3>2, <3>3
  <2>4. \A r \in g : \A b \in FreeIn(k) : ~Overlap(r, b)
    BY <2>3, LiveNotFree
  <2> QED BY <2>3, <2>4 DEF ReadsOf
<1> QED BY <1>7, <1>8, <1>9, <1>10 DEF g

-----------------------------------------------------------------------------
(* The steps, and the theorems. *)

\* The frame starts: the GPU goes along the list just built, while the heap of the other list is
\* cleared, and compacted.
LEMMA StartFrameInv == ASSUME IInv, StartFrame PROVE IInv'
<1> DEFINE w == Flipped
           n == GV_ClearMemorySystem(heap[w])
           k == GV_ClearMemorySystem(heap[2])
<1>1. /\ phase = "start" /\ phase' = "game"
      /\ Waits => gpu = {} /\ drawing = -1
      /\ clock' = w
      /\ late' \in (IF noslow THEN BOOLEAN ELSE {FALSE})
      /\ list' = [list EXCEPT ![w] = {}]
      /\ codec' = IF codec = "opened" THEN "open" ELSE codec
      /\ killing' = IF killing > 0 THEN killing - 1 ELSE 0
      /\ UNCHANGED <<freeCount, queue, block, screen, scene, noslow, readError, stopped, stage>>
  BY DEF StartFrame
<1>2. /\ packs' = ClearedPacks(w, n)
      /\ heap' = [heap EXCEPT ![w] = n, ![2] = IF late THEN @ ELSE GV_ClearMemorySystem(@)]
  BY DEF StartFrame, ClearPackets, ClearedPacks
<1>3. DrawList(w)
  BY DEF StartFrame
<1>4. w \in {0, 1} /\ w = (IF late THEN clock ELSE 1 - clock) /\ clock \in {0, 1} /\ w # 2
  BY StateFacts DEF Flipped
<1>5. Cleared(w, n, packs')
  BY <1>2, <1>4, ClearedFacts
<1>6. /\ k \in Heap /\ ~k.dynamic /\ Cut(k.units, Base(2), To(2, codec)) /\ LiveIn(k) = LiveIn(heap[2])
      /\ Cut(heap[2].units, Base(2), To(2, codec)) /\ heap[2] \in Heap /\ ~heap[2].dynamic
  <2>1. heap[2] \in Heap /\ Base(2) \in Nat /\ Cut(heap[2].units, Base(2), To(2, codec)) /\ ~heap[2].dynamic
    BY StateFacts, MemoryFacts
  <2> QED BY <2>1, ClearMemorySystem
<1> HIDE DEF w, n, k
<1>7. /\ heap' \in [{0, 1, 2} -> Heap] /\ heap'[w] = n /\ heap'[1 - w] = heap[1 - w]
      /\ heap'[2] = IF late THEN heap[2] ELSE k
  <2>1. heap \in [{0, 1, 2} -> Heap]
    BY StateFacts
  <2>2. n \in Heap /\ k = GV_ClearMemorySystem(heap[2])
    BY <1>5 DEF Cleared, k
  <2>3. heap'[2] = IF late THEN heap[2] ELSE k
    BY <1>2, <1>4, <2>1, <2>2
  <2>4. heap'[w] = n /\ heap'[1 - w] = heap[1 - w]
    BY <1>2, <1>4, <2>1
  <2>5. \A h \in {0, 1, 2} : h = w \/ h = 1 - w \/ h = 2
    <3>1. w = 0 \/ w = 1
      BY <1>4
    <3> QED BY <3>1
  <2>6. \A h \in {0, 1, 2} : heap'[h] \in Heap
    BY <1>6, <2>1, <2>2, <2>3, <2>4, <2>5
  <2>7. heap' = [h \in {0, 1, 2} |-> heap'[h]]
    BY <1>2, <2>1
  <2> QED BY <2>3, <2>4, <2>6, <2>7
<1>8. /\ Cut(heap'[2].units, Base(2), To(2, codec)) /\ ~heap'[2].dynamic /\ LiveIn(heap'[2]) = LiveIn(heap[2])
  BY <1>6, <1>7
<1>9. /\ codec' = "closed" <=> codec = "closed"
      /\ Waits <=> ~(noslow /\ late)
  BY <1>1 DEF Waits
<1>10. \/ gpu' = gpu /\ drawing' = drawing
       \/ ~late /\ gpu' = gpu \cup list[1 - w] /\ drawing' = 1 - w
  BY <1>3 DEF DrawList, gvars
<1>11. /\ {noslow, late, stopped} \subseteq BOOLEAN
       /\ stage # "play" => ~stopped /\ codec = "closed" /\ ~noslow
       /\ codec # "closed" => stopped /\ stage = "play" /\ ~noslow
       /\ stopped => list[clock] = {}
       /\ drawing # clock
  BY DEF IInv, Typed, Modes
<1>12. \/ gpu' = {} /\ drawing' = -1
       \/ ~late /\ w = 1 - clock /\ gpu' = list[clock] /\ drawing' = 1 - w
       \/ noslow /\ late /\ w = clock /\ gpu' = gpu /\ drawing' = drawing
  <2>1. CASE noslow /\ late
    BY <1>4, <1>10, <2>1
  <2>2. CASE ~(noslow /\ late)
    <3>1. gpu = {} /\ drawing = -1
      BY <1>1, <1>9, <2>2
    <3>2. CASE gpu' = gpu /\ drawing' = drawing
      BY <3>1, <3>2
    <3>3. CASE ~late /\ gpu' = gpu \cup list[1 - w] /\ drawing' = 1 - w
      <4>1. w = 1 - clock /\ 1 - w = clock
        BY <1>4, <3>3
      <4> QED BY <3>1, <3>3, <4>1
    <3> QED BY <1>10, <3>2, <3>3
  <2> QED BY <2>1, <2>2
<1>13. drawing' # clock' /\ drawing' \in {-1, 0, 1} /\ gpu' \in SUBSET Piece
  <2>1. drawing \in {-1, 0, 1} /\ gpu \in SUBSET Piece /\ list[clock] \in SUBSET Piece
    BY StateFacts DEF IInv, TypeOK
  <2> QED BY <1>1, <1>4, <1>11, <1>12, <2>1
<1>14. list'[w] = {} /\ list' \in [{0, 1} -> SUBSET Piece]
  BY <1>1, <1>4, StateFacts
<1>15. Memory'
  <2>1. CASE codec = "closed"
    <3>1. \A v \in {0, 1} : Cut(heap'[v].units, Base(v), Base(v) + PackSize)
      <4> TAKE v \in {0, 1}
      <4>1. To(v, codec) = Base(v) + PackSize
        BY <2>1, Ranges
      <4>2. Cut(heap[v].units, Base(v), To(v, codec))
        BY <2>1, StateFacts, MemoryFacts
      <4>3. v = w \/ v = 1 - w
        BY <1>4
      <4> QED BY <1>5, <1>7, <2>1, <4>1, <4>2, <4>3 DEF Cleared
    <3> QED BY <1>7, <1>8, <1>9, <2>1, <3>1 DEF Memory, To
  <2>2. CASE codec # "closed"
    <3>1. /\ heap[1] = NoHeap /\ ~heap[0].dynamic /\ Cut(heap[0].units, Base(0), To(0, codec))
      BY <2>2, StateFacts, MemoryFacts
    <3>2. heap'[1] = NoHeap /\ ~heap'[0].dynamic /\ Cut(heap'[0].units, Base(0), To(0, codec))
      <4>1. CASE w = 0
        BY <1>5, <1>7, <2>2, <3>1, <4>1 DEF Cleared
      <4>2. CASE w = 1
        BY <1>5, <1>7, <2>2, <3>1, <4>2 DEF Cleared
      <4> QED BY <1>4, <4>1, <4>2
    <3>3. To(0, codec) = Base(0) + 2 * PackSize /\ To(2, codec) = Base(2) + NormalSize
      BY <2>2 DEF To
    <3> QED BY <1>7, <1>8, <1>9, <2>2, <3>2, <3>3 DEF Memory, NoHeap
  <2> QED BY <2>1, <2>2
<1>16. packs' \in Packs /\ \A o \in Objects, v \in {0, 1} : packs'[o][v] # Null <=> packs[o][v] # Null
  <2>1. \A v \in {0, 1} : v = w \/ v = 1 - w
    BY <1>4
  <2> QED BY <1>5, <2>1 DEF Cleared
<1>17. queue' = queue /\ Queued' = Queued /\ block' = block /\ freeCount' = freeCount
  BY <1>1 DEF Queued
<1>18. PointersRight'
  <2>1. ASSUME NEW v \in {0, 1} PROVE Owned(packs', heap'[v], v)
    <3>1. CASE v = w
      BY <1>5, <1>7, <3>1 DEF Cleared
    <3>2. CASE v = 1 - w
      <4>1. Owned(packs, heap[v], v)
        BY StateFacts
      <4>2. heap'[v] = heap[v] /\ \A o \in Objects : packs'[o][v] = packs[o][v]
        BY <1>5, <1>7, <3>2 DEF Cleared
      <4> QED BY <4>1, <4>2 DEF Owned
    <3> QED BY <1>4, <3>1, <3>2
  <2>2. \A o \in Objects, v \in {0, 1} : packs'[o][v] # Null => o \in Queued' /\ codec' = "closed"
    BY <1>9, <1>16, <1>17, StateFacts
  <2>3. Has(block', heap'[2]) /\ block' \in [Prims \cup Works -> Nat]
    BY <1>8, <1>17, StateFacts DEF Has, Own
  <2> QED BY <2>1, <2>2, <2>3, OwnersNext
<1>19. Counts'
  BY <1>16, <1>17 DEF IInv, Counts
<1>20. Reads'
  <2>1. CASE gpu' = {}
    BY <2>1, NoReads
  <2>2. CASE ~late /\ w = 1 - clock /\ gpu' = list[clock]
    <3>1. CASE codec # "closed"
      BY <1>11, <2>2, <3>1, NoReads
    <3>2. CASE codec = "closed"
      <4>1. Cut(n.units, Base(w), To(w, codec))
        BY <1>5, <3>2 DEF Cleared
      <4>2. /\ ReadsOf(list[clock], heap[clock], clock, "closed", w)
            /\ ReadsOf(list[clock], n, w, "closed", w)
            /\ ReadsOf(list[clock], heap'[2], 2, "closed", w)
            /\ Away(list[clock], w)
        BY <1>1, <1>4, <1>8, <2>2, <3>2, <4>1, BegunReads
      <4>3. \A h \in {0, 1, 2} : h = w \/ h = clock \/ h = 2
        <5>1. clock = 0 \/ clock = 1
          BY <1>4
        <5> QED BY <2>2, <5>1
      <4>4. clock = 1 - w /\ codec' = "closed"
        BY <1>4, <1>9, <2>2, <3>2
      <4>5. \A h \in {0, 1, 2} : ReadsOf(gpu', heap'[h], h, codec', clock')
        BY <1>1, <1>7, <2>2, <4>2, <4>3, <4>4
      <4>6. Away(gpu', clock')
        BY <1>1, <2>2, <4>2
      <4> QED BY <4>5, <4>6, ReadsNext
    <3> QED BY <3>1, <3>2
  <2>3. CASE noslow /\ late /\ w = clock /\ gpu' = gpu
    <3>1. codec = "closed" /\ codec' = "closed" /\ clock' = clock
      BY <1>1, <1>9, <1>11, <2>3
    <3>2. Away(gpu, clock) /\ (\A h \in {0, 1, 2} : ReadsOf(gpu, heap[h], h, codec, clock)) /\ gpu \in SUBSET Piece
      BY <2>3, <3>1, StateFacts
    <3>3. ReadsOf(gpu, n, w, codec, clock)
      <4>1. Cut(n.units, Base(w), To(w, codec))
        BY <1>5, <3>1 DEF Cleared
      <4>2. To(w, codec) = Base(w) + PackSize /\ Base(w) \in Nat /\ To(w, codec) \in Nat
        BY <1>4, <3>1, Ranges, BaseFacts
      <4>3. \A r \in gpu : r.start + r.size <= Base(w) \/ To(w, codec) <= r.start
        BY <2>3, <3>2, <4>2 DEF Away
      <4> QED BY <3>2, <4>1, <4>2, <4>3, OutsideReads
    <3>4. \A h \in {0, 1, 2} : ReadsOf(gpu', heap'[h], h, codec', clock')
      <4>1. \A h \in {0, 1, 2} : h = w \/ h = 1 - w \/ h = 2
        <5>1. w = 0 \/ w = 1
          BY <1>4
        <5> QED BY <5>1
      <4> QED BY <1>4, <1>7, <2>3, <3>1, <3>2, <3>3, <4>1
    <3> QED BY <2>3, <3>1, <3>2, <3>4, ReadsNext
  <2> QED BY <1>12, <2>1, <2>2, <2>3
<1>21. Built'
  BY <1>1 DEF Built
<1>22. killing' \in 0..3 /\ (killing' <= 1 => killing <= 2) /\ (killing' < 3 => TRUE)
  BY <1>1 DEF IInv, TypeOK
<1>23. undraw' \in 0..MaxUndraw /\ lastWhich' \in {-1, 0, 1}
  <2>1. undraw \in 0..MaxUndraw /\ lastWhich \in {-1, 0, 1}
    BY DEF IInv, TypeOK
  <2> QED BY <1>3, <1>4, <2>1, BaseFacts DEF DrawList
<1>24. TypeOK'
  BY <1>1, <1>4, <1>13, <1>17, <1>22, <1>23 DEF IInv, TypeOK
<1>25. Typed'
  <2>1. late' \in BOOLEAN
    BY <1>1
  <2> QED BY <1>1, <1>13, <1>14, <1>16, <1>17, <2>1 DEF IInv, Typed, Packs
<1>26. Modes'
  <2>1. ~noslow => ~late'
    BY <1>1
  <2>2. codec' = "open" \/ stage = "loading" \/ (stage = "killing" /\ killing' < 3) => ~noslow
    BY <1>9, <1>11
  <2> QED BY <1>1, <1>9, <1>11, <1>13, <1>14, <2>1, <2>2 DEF Modes
<1>27. Ended'
  <2>1. Ended
    BY DEF IInv
  <2>2. stage' = stage /\ (stage = "loading" => queue' = << >>)
    BY <1>1, <2>1 DEF Ended
  <2>3. stage = "killing" /\ killing' <= 1 => queue = << >> /\ (\A m \in DOMAIN block : block[m] = Null) /\ list[clock] = {}
    <3>1. killing <= 2 => killing <= 1 \/ killing = 2
      BY DEF IInv, TypeOK
    <3> QED BY <1>1, <1>22, <2>1, <3>1 DEF Ended
  <2>4. stage = "killing" /\ killing' <= 1 => gpu' = {}
    <3>1. stage = "killing" => ~noslow
      BY <1>11
    <3> QED BY <1>12, <2>3, <3>1
  <2> QED BY <1>1, <1>17, <2>2, <2>3, <2>4 DEF Ended
<1> QED BY <1>15, <1>18, <1>19, <1>20, <1>21, <1>24, <1>25, <1>26, <1>27 DEF IInv

\* Nothing happens.
LEMMA StutterInv == ASSUME IInv, UNCHANGED vars PROVE IInv'
<1>1. /\ UNCHANGED <<gpu, drawing, list, screen, clock, late, lastWhich, scene, noslow, readError, stopped, codec, stage, killing>>
      /\ UNCHANGED <<heap, packs, freeCount, queue, block, undraw, phase>>
  BY DEF vars, gvars, lists, frame, mode, store
<1>2. Queued' = Queued
  BY <1>1 DEF Queued
<1>3. Memory' /\ Reads' /\ PointersRight' /\ Counts'
  BY <1>1, <1>2, KeepMemory, KeepReads, KeepPointers, KeepCounts DEF IInv, Typed
<1>4. TypeOK' /\ Typed'
  BY <1>1, <1>2 DEF IInv, TypeOK, Typed
<1>5. Built' /\ Modes' /\ Ended'
  BY <1>1 DEF IInv, Built, Modes, Ended
<1> QED BY <1>3, <1>4, <1>5 DEF IInv

\* Every step of an actor.
LEMMA ActInv == ASSUME IInv, Act PROVE IInv'
<1>1. CASE \E o \in Objects : MakeObjs(o)
  BY <1>1, MakeObjsInv
<1>2. CASE \E o \in Objects : FreeObjs(o)
  BY <1>2, FreeObjsInv
<1>3. CASE \E o \in Objects : FreeObjsPacket(o)
  BY <1>3, FreeObjsPacketInv
<1>4. CASE \E x \in Prims \cup Works : Malloc(x)
  BY <1>4, MallocInv
<1>5. CASE \E x \in Prims \cup Works : Release(x)
  BY <1>5, ReleaseInv
<1>6. CASE SetUndraw \/ SetNoSlow \/ ReadError \/ RestartMain \/ KillStage
  BY <1>6, ModesInv
<1>7. CASE StopMain
  BY <1>7, StopMainInv
<1>8. CASE OpenCodec
  BY <1>8, OpenCodecInv
<1>9. CASE LoadFace
  BY <1>9, LoadFaceInv
<1>10. CASE CloseCodec
  BY <1>10, CloseCodecInv
<1>11. CASE ResetStage
  BY <1>11, ResetStageInv
<1>12. CASE LoadPcx
  BY <1>12, LoadPcxInv
<1>13. CASE BeginStage
  BY <1>13, BeginStageInv
<1> QED BY <1>1, <1>2, <1>3, <1>4, <1>5, <1>6, <1>7, <1>8, <1>9, <1>10, <1>11, <1>12, <1>13 DEF Act

\* Every step.
LEMMA NextInv == ASSUME IInv, [Next]_vars PROVE IInv'
<1>1. CASE GpuDone
  BY <1>1, GpuDoneInv
<1>2. CASE StartFrame
  BY <1>2, StartFrameInv
<1>3. CASE EndFrame
  BY <1>3, EndFrameLeft, EndFrameBuilt
<1>4. CASE Act
  BY <1>4, ActInv
<1>5. CASE UNCHANGED vars
  BY <1>5, StutterInv
<1> QED BY <1>1, <1>2, <1>3, <1>4, <1>5 DEF Next

\* The inductive invariant holds in every state of every behaviour.
THEOREM Invariant == Spec => []IInv
<1>1. Init => IInv
  BY InitInv
<1>2. IInv /\ [Next]_vars => IInv'
  BY NextInv
<1> QED BY <1>1, <1>2, PTL DEF Spec

\* The heaps are whole, by the invariant.
LEMMA InvHeapWhole == IInv => HeapWhole
<1> SUFFICES ASSUME IInv PROVE HeapWhole
  OBVIOUS
<1>1. TypeOK /\ Memory
  BY DEF IInv
<1>2. \A h \in {0, 1, 2} : codec = "closed" \/ h # 1 => Cut(heap[h].units, Base(h), To(h, codec))
  BY <1>1, MemoryFacts
<1>3. ASSUME NEW h \in {0, 1, 2}
      PROVE LET u == heap[h].units IN
       /\ codec = "closed" \/ h = 2 => u[1].start = Base(h) /\ HeapEnd(heap[h]) = Base(h) + (IF h = 2 THEN NormalSize ELSE PackSize)
       /\ Last(u).state = "used" /\ Len(u) <= MaxUnits
       /\ \A i \in Units(h) : /\ SizeOf(heap[h], i) > 0 \/ heap[h] = GV_InitMemorySystem(FALSE, Null, 0)
                              /\ u[i].state \in {"free", "void"} \cup Names
                              /\ u[i].state = "free" => u[i + 1].state # "free"
  <2> DEFINE u == heap[h].units
  <2>1. CASE codec = "closed" \/ h # 1
    <3>1. Cut(u, Base(h), To(h, codec))
      BY <1>2, <2>1
    <3>2. Base(h) \in Nat /\ To(h, codec) \in Nat
      BY <1>1, MemoryFacts
    <3>3. Loose(u, Base(h), To(h, codec))
      BY <3>1, CutLoose
    <3>4. Table(u, Base(h), To(h, codec))
      BY <3>2, <3>3, TableFacts
    <3>5. Last(u) = u[Len(u)] /\ HeapEnd(heap[h]) = u[Len(u)].start
      BY <3>4 DEF Last, HeapEnd, Table
    <3>6. codec = "closed" \/ h = 2 => To(h, codec) = Base(h) + (IF h = 2 THEN NormalSize ELSE PackSize)
      BY DEF To
    <3>7. u[1].start = Base(h) /\ u[Len(u)] = Unit(To(h, codec), "used") /\ Len(u) <= MaxUnits /\ Len(u) \in Nat
          /\ \A i \in 1..Len(u) - 1 : u[i].state \in {"free", "void"} \cup Names /\ (u[i].state = "free" => u[i + 1].state # "free")
      <4>1. Len(u) \in 2..MaxUnits /\ MaxUnits \in Nat
        BY <3>1, MaxUnitsAssumption DEF Cut
      <4>2. Len(u) <= MaxUnits /\ Len(u) \in Nat
        BY <4>1
      <4> HIDE DEF u
      <4> QED BY <3>1, <4>2 DEF Cut
    <3>8. Units(h) = 1..Len(u) - 1 /\ \A i \in Units(h) : SizeOf(heap[h], i) > 0
      <4>1. Units(h) = 1..Len(u) - 1
        BY DEF Units, InUse
      <4>2. ASSUME NEW i \in 1..Len(u) - 1 PROVE SizeOf(heap[h], i) > 0
        <5>1. u[i].start < u[i + 1].start /\ i \in 1..Len(u) /\ i + 1 \in 1..Len(u)
          BY <3>4, <3>7 DEF Table
        <5>2. u[i].start \in Nat /\ u[i + 1].start \in Nat
          BY <3>4, <5>1 DEF Table
        <5> DEFINE a == u[i].start
                   b == u[i + 1].start
        <5>3. SizeOf(heap[h], i) = b - a
          BY DEF SizeOf
        <5> HIDE DEF a, b
        <5>4. a < b /\ a \in Nat /\ b \in Nat
          BY <5>1, <5>2 DEF a, b
        <5> QED BY <5>3, <5>4
      <4> QED BY <4>1, <4>2
    <3>9. HeapEnd(heap[h]) = To(h, codec) /\ Last(u).state = "used"
      BY <3>5, <3>7 DEF Unit
    <3> HIDE DEF u
    <3>10. /\ codec = "closed" \/ h = 2 => u[1].start = Base(h) /\ HeapEnd(heap[h]) = Base(h) + (IF h = 2 THEN NormalSize ELSE PackSize)
           /\ Last(u).state = "used" /\ Len(u) <= MaxUnits
           /\ \A i \in Units(h) : /\ SizeOf(heap[h], i) > 0 \/ heap[h] = GV_InitMemorySystem(FALSE, Null, 0)
                                  /\ u[i].state \in {"free", "void"} \cup Names
                                  /\ u[i].state = "free" => u[i + 1].state # "free"
      BY <3>6, <3>7, <3>8, <3>9
    <3> QED BY <3>10 DEF u
  <2>2. CASE ~(codec = "closed" \/ h # 1)
    <3>1. heap[h] = NoHeap /\ h # 2 /\ codec # "closed"
      BY <1>1, <2>2, MemoryFacts
    <3>11. heap[h] = GV_InitMemorySystem(FALSE, Null, 0)
      BY <3>1 DEF NoHeap
    <3>2. u = <<Unit(0, "free"), Unit(0, "used")>>
      BY <3>1 DEF NoHeap, GV_InitMemorySystem, Null
    <3>3. Units(h) = {1} /\ Last(u) = Unit(0, "used") /\ Len(u) = 2 /\ u[1] = Unit(0, "free") /\ u[2] = Unit(0, "used")
      BY <3>2 DEF Units, InUse, Last
    <3>4. Len(u) <= MaxUnits
      BY <3>3, MaxUnitsAssumption
    <3> HIDE DEF u
    <3>10. /\ codec = "closed" \/ h = 2 => u[1].start = Base(h) /\ HeapEnd(heap[h]) = Base(h) + (IF h = 2 THEN NormalSize ELSE PackSize)
           /\ Last(u).state = "used" /\ Len(u) <= MaxUnits
           /\ \A i \in Units(h) : /\ SizeOf(heap[h], i) > 0 \/ heap[h] = GV_InitMemorySystem(FALSE, Null, 0)
                                  /\ u[i].state \in {"free", "void"} \cup Names
                                  /\ u[i].state = "free" => u[i + 1].state # "free"
      <4>1. \A i \in Units(h) : i = 1
        BY <3>3
      <4>2. u[1].state = "free" /\ u[1 + 1].state = "used" /\ Last(u).state = "used"
        BY <3>3 DEF Unit
      <4> QED BY <3>1, <3>4, <3>11, <4>1, <4>2
    <3> QED BY <3>10 DEF u
  <2> QED BY <2>1, <2>2
<1> QED BY <1>1, <1>3 DEF HeapWhole

\* What the GPU reads is intact, by the invariant.
LEMMA InvGpuIntact == IInv => GpuIntact
<1> SUFFICES ASSUME IInv PROVE GpuIntact
  OBVIOUS
<1>1. drawing # clock
  BY DEF IInv, Modes
<1>2. ASSUME NEW r \in gpu, NEW h \in {0, 1, 2}, NEW i \in Units(h), IsLive(heap[h].units[i]), Overlap(r, BlockOf(h, i))
      PROVE  \/ BlockOf(h, i) = r
             \/ codec = "opened" /\ heap[h].units[i].state \in {"codec", "face"}
  <2>1. BlockOf(h, i) = BlockAt(heap[h], i) /\ BlockAt(heap[h], i) \in LiveIn(heap[h])
    BY <1>2 DEF BlockOf, BlockAt, LiveIn, Units
  <2>2. BlockAt(heap[h], i).by = heap[h].units[i].state
    BY DEF BlockAt
  <2> QED BY <1>2, <2>1, <2>2 DEF IInv, Reads
<1> QED BY <1>1, <1>2 DEF GpuIntact

\* memory.c: whatever is allocated, freed, voided, joined and compacted, a heap is cut into units
\* from its start to its end, in a table that is large enough.
THEOREM HeapWholeHolds == Spec => []HeapWhole
BY Invariant, InvHeapWhole, PTL

\* bound.c, opack.c: an object's pointer and the owner of its unit say the same, through
\* compactions, stops and the codec; nothing is lost.
THEOREM PointersRightHolds == Spec => []PointersRight
<1>1. IInv => PointersRight
  BY DEF IInv
<1> QED BY <1>1, Invariant, PTL

\* dgd.c, frame.c: nobody is given memory that the GPU still reads, and it does not move, but for
\* the blocks of a codec that opens.
THEOREM GpuIntactHolds == Spec => []GpuIntact
BY Invariant, InvGpuIntact, PTL
=============================================================================
