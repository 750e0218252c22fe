--------------------------- MODULE GvMessageProofs ---------------------------
(***************************************************************************)
(* No actor misses a message and none gets one twice, for any number of   *)
(* addresses, actors, pausers and messages, and any use of the bits of     *)
(* GV_PauseLevel that keeps MessageAssumption; and the two buffers of      *)
(* message.c implement the mailbox of GvMailbox.  First the lists of       *)
(* message.c, then the steps of the frame, then the theorems.              *)
(***************************************************************************)
EXTENDS GvMessageInv, SequenceTheorems, FiniteSetTheorems, TLAPS

-----------------------------------------------------------------------------
(* Lists of messages *)

\* Inserting at a place shifts those from it on.
LEMMA InsertAtElements ==
  ASSUME NEW S, NEW q \in Seq(S), NEW i \in 1 .. Len(q) + 1, NEW e \in S
  PROVE  /\ InsertAt(q, i, e) \in Seq(S)
         /\ Len(InsertAt(q, i, e)) = Len(q) + 1
         /\ \A j \in 1 .. Len(q) + 1 :
              InsertAt(q, i, e)[j] = IF j < i THEN q[j] ELSE IF j = i THEN e ELSE q[j - 1]
<1>1. Len(q) \in Nat /\ \A j \in 1 .. Len(q) : q[j] \in S
  BY LenProperties, ElementOfSeq
<1> DEFINE a == SubSeq(q, 1, i - 1)
           b == SubSeq(q, i, Len(q))
<1>2. a \in Seq(S) /\ Len(a) = i - 1 /\ \A j \in 1 .. i - 1 : a[j] = q[j]
  <2>1. i - 1 \in Int /\ \A j \in 1 .. i - 1 : q[j] \in S
    BY <1>1
  <2>2. /\ a \in Seq(S) /\ Len(a) = IF 1 <= i - 1 THEN i - 1 - 1 + 1 ELSE 0
        /\ \A j \in 1 .. i - 1 - 1 + 1 : a[j] = q[1 + j - 1]
    BY <2>1, SubSeqProperties
  <2> QED BY <1>1, <2>2
<1>3. b \in Seq(S) /\ Len(b) = Len(q) - i + 1 /\ \A j \in 1 .. Len(q) - i + 1 : b[j] = q[i + j - 1]
  <2>1. i \in Int /\ Len(q) \in Int /\ \A j \in i .. Len(q) : q[j] \in S
    BY <1>1
  <2>2. /\ b \in Seq(S) /\ Len(b) = IF i <= Len(q) THEN Len(q) - i + 1 ELSE 0
        /\ \A j \in 1 .. Len(q) - i + 1 : b[j] = q[i + j - 1]
    BY <2>1, SubSeqProperties
  <2> QED BY <1>1, <2>2
<1> HIDE DEF a, b
<1>4. <<e>> \in Seq(S) /\ Len(<<e>>) = 1 /\ <<e>>[1] = e
  OBVIOUS
<1>5. /\ a \o <<e>> \in Seq(S) /\ Len(a \o <<e>>) = i
      /\ \A j \in 1 .. i : (a \o <<e>>)[j] = IF j < i THEN q[j] ELSE e
  <2>1. /\ a \o <<e>> \in Seq(S) /\ Len(a \o <<e>>) = Len(a) + Len(<<e>>)
        /\ \A j \in 1 .. Len(a) + Len(<<e>>) :
             (a \o <<e>>)[j] = IF j <= Len(a) THEN a[j] ELSE <<e>>[j - Len(a)]
    BY <1>2, <1>4, ConcatProperties
  <2>2. Len(a) + Len(<<e>>) = i
    BY <1>1, <1>2, <1>4
  <2>3. ASSUME NEW j \in 1 .. i PROVE (a \o <<e>>)[j] = IF j < i THEN q[j] ELSE e
    <3>1. CASE j < i
      BY <1>1, <1>2, <2>1, <2>2, <3>1
    <3>2. CASE ~(j < i)
      <4>1. j = i /\ ~(j <= Len(a)) /\ j - Len(a) = 1
        BY <1>1, <1>2, <3>2
      <4> QED BY <2>1, <2>2, <4>1, <1>4
    <3> QED BY <3>1, <3>2
  <2> QED BY <2>1, <2>2, <2>3
<1> DEFINE c == a \o <<e>>
<1> HIDE DEF c
<1>6. c \in Seq(S) /\ Len(c) = i /\ \A j \in 1 .. i : c[j] = IF j < i THEN q[j] ELSE e
  BY <1>5 DEF c
<1>7. /\ c \o b \in Seq(S) /\ Len(c \o b) = Len(c) + Len(b)
      /\ \A j \in 1 .. Len(c) + Len(b) : (c \o b)[j] = IF j <= Len(c) THEN c[j] ELSE b[j - Len(c)]
  BY <1>3, <1>6, ConcatProperties
<1>8. Len(c) + Len(b) = Len(q) + 1
  BY <1>1, <1>3, <1>6
<1>9. ASSUME NEW j \in 1 .. Len(q) + 1
      PROVE  (c \o b)[j] = IF j < i THEN q[j] ELSE IF j = i THEN e ELSE q[j - 1]
  <2>1. CASE j <= i
    <3>1. j \in 1 .. i /\ (c \o b)[j] = c[j]
      BY <1>1, <1>6, <1>7, <1>8, <2>1
    <3> QED BY <1>1, <1>6, <2>1, <3>1
  <2>2. CASE j > i
    <3>1. j - i \in 1 .. Len(q) - i + 1 /\ i + (j - i) - 1 = j - 1 /\ ~(j <= Len(c))
      BY <1>1, <1>6, <2>2
    <3>2. (c \o b)[j] = b[j - i]
      BY <1>6, <1>7, <1>8, <3>1
    <3>3. b[j - i] = q[j - 1]
      BY <1>3, <3>1
    <3> QED BY <1>1, <2>2, <3>2, <3>3
  <2>3. j <= i \/ j > i
    BY <1>1
  <2> QED BY <2>1, <2>2, <2>3
<1> QED BY <1>7, <1>8, <1>9 DEF InsertAt, c, a, b

LEMMA EntryFacts ==
  ASSUME NEW list \in Seq(Entry)
  PROVE  /\ Len(list) \in Nat /\ DOMAIN list = 1 .. Len(list)
         /\ \A i \in 1 .. Len(list) : /\ list[i].address \in Address /\ list[i].body \in Body
                                      /\ list[i].len \in Nat /\ list[i].len >= 1
<1>1. /\ Len(list) \in Nat /\ DOMAIN list = 1 .. Len(list)
      /\ \A i \in 1 .. Len(list) : list[i] \in Entry
  BY LenProperties, ElementOfSeq
<1>2. \A e \in Entry : e.address \in Address /\ e.body \in Body /\ e.len \in Nat /\ e.len >= 1
  BY MessageAssumption DEF Entry
<1> QED BY <1>1, <1>2

\* The scan for an address stops at its first message, or behind the last one of all.
LEMMA FirstToFacts ==
  ASSUME NEW list \in Seq(Entry), Stacked(list), NEW a
  PROVE  /\ FirstTo(list, a) \in 1 .. Len(list) + 1
         /\ FirstTo(list, a) <= Len(list) => list[FirstTo(list, a)].address = a
         /\ \A j \in 1 .. Len(list) : list[j].address = a => FirstTo(list, a) <= j
<1>1. Len(list) \in Nat /\ DOMAIN list = 1 .. Len(list)
  BY EntryFacts
<1> DEFINE at == {i \in DOMAIN list : list[i].address = a}
<1>2. CASE at = {}
  BY <1>1, <1>2 DEF FirstTo
<1>3. CASE at # {}
  <2>0. PICK k \in DOMAIN list : list[k].address = a
    BY <1>3
  <2>1. PICK f \in DOMAIN list :
          list[f].address = a /\ \A j \in DOMAIN list : list[j].address = a => f <= j
    BY <2>0 DEF Stacked
  <2>2. FirstTo(list, a) = CHOOSE i \in at : \A j \in at : i <= j
    BY <1>3 DEF FirstTo
  <2>3. FirstTo(list, a) \in at /\ \A j \in at : FirstTo(list, a) <= j
    BY <2>1, <2>2
  <2> QED BY <1>1, <2>3
<1> QED BY <1>2, <1>3

\* ... and is the only place with that property.
LEMMA FirstToIs ==
  ASSUME NEW list \in Seq(Entry), Stacked(list), NEW a, NEW i \in 1 .. Len(list) + 1,
         i <= Len(list) => list[i].address = a,
         \A j \in 1 .. Len(list) : list[j].address = a => i <= j
  PROVE  FirstTo(list, a) = i
<1>1. Len(list) \in Nat
  BY EntryFacts
<1> DEFINE f == FirstTo(list, a)
<1>2. /\ f \in 1 .. Len(list) + 1
      /\ f <= Len(list) => list[f].address = a
      /\ \A j \in 1 .. Len(list) : list[j].address = a => f <= j
  BY FirstToFacts
<1> HIDE DEF f
<1>3. i <= f /\ f <= i
  BY <1>1, <1>2
<1> QED BY <1>1, <1>2, <1>3 DEF f

\* The box of an address is a sequence of messages of the list.
LEMMA BoxFacts ==
  ASSUME NEW list \in Seq(Entry), Stacked(list), NEW a
  PROVE  /\ CountAt(list, FirstTo(list, a)) \in Nat
         /\ FirstTo(list, a) + CountAt(list, FirstTo(list, a)) <= Len(list) + 1
         /\ MessagesTo(list, a) \in Seq(Body)
         /\ Len(MessagesTo(list, a)) = CountAt(list, FirstTo(list, a))
         /\ DOMAIN MessagesTo(list, a) = 1 .. CountAt(list, FirstTo(list, a))
         /\ \A k \in 1 .. CountAt(list, FirstTo(list, a)) :
              MessagesTo(list, a)[k] = list[FirstTo(list, a) + k - 1].body
         /\ ToSet(MessagesTo(list, a)) \subseteq Bodies(list)
<1> DEFINE f == FirstTo(list, a)
           n == CountAt(list, f)
<1>1. Len(list) \in Nat /\ DOMAIN list = 1 .. Len(list)
  BY EntryFacts
<1>2. f \in 1 .. Len(list) + 1
  BY FirstToFacts
<1>3. n \in Nat /\ f + n <= Len(list) + 1
  <2>1. CASE f > Len(list)
    BY <1>1, <1>2, <2>1 DEF CountAt
  <2>2. CASE ~(f > Len(list))
    <3>1. f \in 1 .. Len(list) /\ n = list[f].len
      BY <1>1, <1>2, <2>2 DEF CountAt
    <3>2. list[f].len \in Nat /\ f + list[f].len <= Len(list) + 1
      BY <1>1, <3>1, EntryFacts DEF Stacked
    <3> QED BY <3>1, <3>2
  <2> QED BY <2>1, <2>2
<1>4. MessagesTo(list, a) = [k \in 1 .. n |-> list[f + k - 1].body]
  BY DEF MessagesTo
<1> HIDE DEF f, n
<1>5. \A k \in 1 .. n : f + k - 1 \in 1 .. Len(list)
  BY <1>1, <1>2, <1>3
<1>6. \A k \in 1 .. n : list[f + k - 1].body \in Body
  BY <1>5, EntryFacts
<1>7. MessagesTo(list, a) \in Seq(Body) /\ Len(MessagesTo(list, a)) = n
  BY <1>3, <1>4, <1>6, IsASeq
<1>8. ToSet(MessagesTo(list, a)) \subseteq Bodies(list)
  BY <1>1, <1>4, <1>5 DEF ToSet, Bodies
<1> QED BY <1>3, <1>4, <1>7, <1>8 DEF f, n

LEMMA EmptyList ==
  Stacked(<<>>) /\ Bodies(<<>>) = {} /\ <<>> \in Seq(Entry) /\ \A a : MessagesTo(<<>>, a) = <<>>
<1>1. Len(<<>>) = 0 /\ DOMAIN <<>> = {} /\ <<>> \in Seq(Entry)
  OBVIOUS
<1>2. Stacked(<<>>) /\ Bodies(<<>>) = {}
  BY <1>1 DEF Stacked, Bodies
<1>3. ASSUME NEW a PROVE MessagesTo(<<>>, a) = <<>>
  <2>1. FirstTo(<<>>, a) = 1
    BY <1>1 DEF FirstTo
  <2>2. CountAt(<<>>, 1) = 0
    BY <1>1 DEF CountAt
  <2> QED BY <2>1, <2>2 DEF MessagesTo
<1> QED BY <1>1, <1>2, <1>3

\* Where a message is inserted: before all to its address, between those to two others.
LEMMA PlaceFacts ==
  ASSUME NEW list \in Seq(Entry), Stacked(list), NEW a, NEW f, NEW n,
         f = FirstTo(list, a), n = CountAt(list, f)
  PROVE  /\ \A j \in 1 .. Len(list) :
              list[j].address = a => f <= j /\ f + n = j + list[j].len
         /\ \A j \in 1 .. Len(list) : j < f => j + list[j].len <= f
         /\ \A j, k \in 1 .. Len(list) : j < f /\ f <= k => list[j].address # list[k].address
         /\ \A k \in 1 .. Len(list) : f <= k /\ k < f + n => list[k].address = a
<1>1. /\ Len(list) \in Nat /\ DOMAIN list = 1 .. Len(list)
      /\ \A j \in 1 .. Len(list) : list[j].len \in Nat /\ list[j].len >= 1
  BY EntryFacts
<1>2. /\ f \in 1 .. Len(list) + 1
      /\ f <= Len(list) => list[f].address = a
      /\ \A j \in 1 .. Len(list) : list[j].address = a => f <= j
  BY FirstToFacts
<1>3. n = IF f > Len(list) THEN 0 ELSE list[f].len
  BY DEF CountAt
<1>4. ASSUME NEW j \in 1 .. Len(list), list[j].address = a
      PROVE  f <= j /\ f + n = j + list[j].len
  <2>1. f <= j /\ f \in 1 .. Len(list)
    BY <1>1, <1>2, <1>4
  <2>2. n = list[f].len /\ list[f].address = list[j].address
    BY <1>1, <1>2, <1>3, <1>4, <2>1
  <2> QED BY <1>1, <2>1, <2>2 DEF Stacked
<1>5. ASSUME NEW j \in 1 .. Len(list), j < f PROVE j + list[j].len <= f
  <2> SUFFICES ASSUME j + list[j].len > f PROVE FALSE
    BY <1>1, <1>2
  <2>1. j + list[j].len <= Len(list) + 1 /\ list[j].len \in Nat
    BY <1>1 DEF Stacked
  <2>2. f \in j .. j + list[j].len - 1 /\ f \in 1 .. Len(list)
    BY <1>1, <1>2, <1>5, <2>1
  <2>3. list[f].address = list[j].address
    BY <1>1, <2>2 DEF Stacked
  <2>4. f <= j
    BY <1>1, <1>2, <2>2, <2>3
  <2> QED BY <1>1, <1>2, <1>5, <2>4
<1>6. ASSUME NEW j \in 1 .. Len(list), NEW k \in 1 .. Len(list), j < f, f <= k,
             list[j].address = list[k].address
      PROVE  FALSE
  <2>1. j + list[j].len = k + list[k].len /\ list[k].len >= 1 /\ list[k].len \in Nat
        /\ list[j].len \in Nat
    BY <1>1, <1>6 DEF Stacked
  <2>2. j + list[j].len <= f
    BY <1>5, <1>6
  <2> QED BY <1>1, <1>2, <1>6, <2>1, <2>2
<1>7. ASSUME NEW k \in 1 .. Len(list), f <= k, k < f + n PROVE list[k].address = a
  <2>1. f \in 1 .. Len(list) /\ n = list[f].len /\ list[f].address = a /\ list[f].len \in Nat
    BY <1>1, <1>2, <1>3, <1>7
  <2>2. k \in f .. f + list[f].len - 1
    BY <1>7, <2>1
  <2> QED BY <1>1, <2>1, <2>2 DEF Stacked
<1> QED BY <1>4, <1>5, <1>6, <1>7

LEMMA InsertedElements ==
  ASSUME NEW list \in Seq(Entry), Stacked(list), Len(list) < MAX_MESSAGES,
         NEW a \in Address, NEW b \in Body, NEW f, NEW n, NEW l2,
         f = FirstTo(list, a), n = CountAt(list, f), l2 = Inserted(list, a, b)
  PROVE  /\ l2 \in Seq(Entry) /\ Len(l2) = Len(list) + 1 /\ DOMAIN l2 = 1 .. Len(list) + 1
         /\ \A j \in 1 .. Len(list) : j < f => l2[j] = list[j]
         /\ l2[f].address = a /\ l2[f].body = b /\ l2[f].len = n + 1
         /\ \A j \in 1 .. Len(list) : f <= j => l2[j + 1] = list[j]
<1> DEFINE e == [address |-> a, body |-> b, len |-> n + 1]
<1>1. Len(list) \in Nat /\ f \in 1 .. Len(list) + 1
  BY EntryFacts, FirstToFacts
<1>2. n \in Nat /\ f + n <= Len(list) + 1
  BY BoxFacts
<1>3. n + 1 \in 1 .. MAX_MESSAGES
  BY <1>1, <1>2, MessageAssumption
<1>4. e \in Entry
  BY <1>3 DEF Entry
<1>5. e.address = a /\ e.body = b /\ e.len = n + 1
  OBVIOUS
<1>6. l2 = InsertAt(list, f, e)
  BY DEF Inserted
<1> HIDE DEF e
<1>7. /\ l2 \in Seq(Entry) /\ Len(l2) = Len(list) + 1
      /\ \A j \in 1 .. Len(list) + 1 :
           l2[j] = IF j < f THEN list[j] ELSE IF j = f THEN e ELSE list[j - 1]
  <2>1. /\ InsertAt(list, f, e) \in Seq(Entry) /\ Len(InsertAt(list, f, e)) = Len(list) + 1
        /\ \A j \in 1 .. Len(list) + 1 :
             InsertAt(list, f, e)[j] = IF j < f THEN list[j] ELSE IF j = f THEN e ELSE list[j - 1]
    BY <1>1, <1>4, InsertAtElements
  <2> QED BY <1>6, <2>1
<1>8. DOMAIN l2 = 1 .. Len(list) + 1
  BY <1>7, LenProperties
<1>9. \A j \in 1 .. Len(list) : j < f => l2[j] = list[j]
  BY <1>1, <1>7
<1>10. l2[f] = e
  BY <1>1, <1>7
<1>11. ASSUME NEW j \in 1 .. Len(list), f <= j PROVE l2[j + 1] = list[j]
  <2>1. j + 1 \in 1 .. Len(list) + 1 /\ ~(j + 1 < f) /\ j + 1 # f /\ (j + 1) - 1 = j
    BY <1>1, <1>11
  <2>2. l2[j + 1] = list[(j + 1) - 1]
    BY <1>7, <2>1
  <2> QED BY <2>1, <2>2
<1> QED BY <1>5, <1>7, <1>8, <1>9, <1>10, <1>11

LEMMA InsertedStacked ==
  ASSUME NEW list \in Seq(Entry), Stacked(list), Len(list) < MAX_MESSAGES,
         NEW a \in Address, NEW b \in Body
  PROVE  Stacked(Inserted(list, a, b))
<1> DEFINE f == FirstTo(list, a)
           n == CountAt(list, f)
           l2 == Inserted(list, a, b)
<1>1. /\ Len(list) \in Nat /\ DOMAIN list = 1 .. Len(list)
      /\ \A j \in 1 .. Len(list) : list[j].len \in Nat /\ list[j].len >= 1
  BY EntryFacts
<1>2. f \in 1 .. Len(list) + 1
  BY FirstToFacts
<1>3. n \in Nat /\ f + n <= Len(list) + 1
  BY BoxFacts
<1>4. /\ l2 \in Seq(Entry) /\ Len(l2) = Len(list) + 1 /\ DOMAIN l2 = 1 .. Len(list) + 1
      /\ \A j \in 1 .. Len(list) : j < f => l2[j] = list[j]
      /\ l2[f].address = a /\ l2[f].body = b /\ l2[f].len = n + 1
      /\ \A j \in 1 .. Len(list) : f <= j => l2[j + 1] = list[j]
  BY InsertedElements
<1>5. /\ \A j \in 1 .. Len(list) :
           list[j].address = a => f <= j /\ f + n = j + list[j].len
      /\ \A j \in 1 .. Len(list) : j < f => j + list[j].len <= f
      /\ \A j, k \in 1 .. Len(list) : j < f /\ f <= k => list[j].address # list[k].address
      /\ \A k \in 1 .. Len(list) : f <= k /\ k < f + n => list[k].address = a
  BY PlaceFacts
<1> HIDE DEF f, n, l2
\* Every place but f shows an old message, where it was or one further.
<1>6. ASSUME NEW i \in 1 .. Len(list) + 1, i # f
      PROVE  \E j \in 1 .. Len(list) : /\ l2[i] = list[j]
                                       /\ \/ i < f /\ j = i
                                          \/ i > f /\ j >= f /\ i = j + 1
  <2>1. CASE i < f
    BY <1>1, <1>2, <1>4, <2>1
  <2>2. CASE i > f
    <3>1. i - 1 \in 1 .. Len(list) /\ f <= i - 1 /\ (i - 1) + 1 = i
      BY <1>1, <1>2, <2>2
    <3> QED BY <1>4, <2>2, <3>1
  <2> QED BY <1>2, <1>6, <2>1, <2>2
<1>7. ASSUME NEW i \in 1 .. Len(list) + 1, NEW j \in 1 .. Len(list) + 1,
             l2[i].address = l2[j].address
      PROVE  i + l2[i].len = j + l2[j].len
  <2>1. ASSUME NEW k \in 1 .. Len(list) + 1, k # f, l2[k].address = a
        PROVE  k + l2[k].len = f + n + 1
    <3>1. PICK m \in 1 .. Len(list) : /\ l2[k] = list[m]
                                      /\ (k < f /\ m = k) \/ (k > f /\ m >= f /\ k = m + 1)
      BY <1>6, <2>1
    <3>2. f <= m /\ f + n = m + list[m].len /\ list[m].len \in Nat
      BY <1>1, <1>5, <2>1, <3>1
    <3>3. l2[k].len = list[m].len /\ k = m + 1
      BY <1>1, <1>2, <3>1, <3>2
    <3>4. f \in Int /\ n \in Int /\ m \in Int
      BY <1>1, <1>2, <1>3
    <3>5. PICK x \in Nat : x = l2[k].len /\ f + n = m + x
      BY <3>2, <3>3
    <3>6. k + x = f + n + 1
      <4>1. k + x = (m + x) + 1
        BY <3>3, <3>4
      <4> QED BY <3>4, <3>5, <4>1
    <3> QED BY <3>5, <3>6
  <2>2. CASE i = f \/ j = f
    <3>1. f + l2[f].len = f + n + 1
      BY <1>1, <1>2, <1>3, <1>4
    <3> QED BY <1>4, <1>7, <2>1, <2>2, <3>1
  <2>3. CASE i # f /\ j # f
    <3>1. PICK m \in 1 .. Len(list) : /\ l2[i] = list[m]
                                      /\ (i < f /\ m = i) \/ (i > f /\ m >= f /\ i = m + 1)
      BY <1>6, <2>3
    <3>2. PICK k \in 1 .. Len(list) : /\ l2[j] = list[k]
                                      /\ (j < f /\ k = j) \/ (j > f /\ k >= f /\ j = k + 1)
      BY <1>6, <2>3
    <3>3. m + list[m].len = k + list[k].len /\ list[m].len \in Nat /\ list[k].len \in Nat
      <4>1. list[m].address = list[k].address
        BY <1>7, <3>1, <3>2
      <4>2. m + list[m].len = k + list[k].len
        BY <1>1, <4>1 DEF Stacked
      <4> QED BY <1>1, <4>2
    <3>4. (i < f <=> j < f)
      BY <1>2, <1>5, <1>7, <3>1, <3>2
    <3>5. l2[i].len = list[m].len /\ l2[j].len = list[k].len
      BY <3>1, <3>2
    <3>6. (i = m /\ j = k) \/ (i = m + 1 /\ j = k + 1)
      BY <1>1, <1>2, <3>1, <3>2, <3>4
    <3> QED BY <3>3, <3>5, <3>6
  <2> QED BY <2>2, <2>3
<1>8. ASSUME NEW i \in 1 .. Len(list) + 1
      PROVE  /\ i + l2[i].len <= Len(list) + 2
             /\ \A k \in i .. i + l2[i].len - 1 : l2[k].address = l2[i].address
  <2>1. CASE i = f
    <3>0. f \in Int /\ n \in Int /\ Len(list) \in Int /\ l2[i].len = n + 1
      BY <1>1, <1>2, <1>3, <1>4, <2>1
    <3>1. i + l2[i].len = f + n + 1 /\ i + l2[i].len - 1 = f + n /\ f + n + 1 <= Len(list) + 2
      BY <1>3, <2>1, <3>0
    <3>2. ASSUME NEW k \in f .. f + n PROVE l2[k].address = a
      <4>1. CASE k = f
        BY <1>4, <4>1
      <4>2. CASE k > f
        <5>1. k - 1 \in 1 .. Len(list) /\ f <= k - 1 /\ k - 1 < f + n /\ (k - 1) + 1 = k
          BY <1>1, <1>2, <1>3, <4>2
        <5>2. l2[k] = list[k - 1]
          BY <1>4, <5>1
        <5> QED BY <1>5, <5>1, <5>2
      <4> QED BY <1>2, <1>3, <4>1, <4>2
    <3>3. \A k \in i .. i + l2[i].len - 1 : l2[k].address = a
      BY <2>1, <3>1, <3>2
    <3> QED BY <1>4, <2>1, <3>1, <3>3
  <2>2. CASE i # f
    <3>1. PICK m \in 1 .. Len(list) : /\ l2[i] = list[m]
                                      /\ (i < f /\ m = i) \/ (i > f /\ m >= f /\ i = m + 1)
      BY <1>6, <2>2
    <3>2. /\ m + list[m].len <= Len(list) + 1 /\ list[m].len \in Nat
          /\ \A k \in m .. m + list[m].len - 1 : list[k].address = list[m].address
      BY <1>1 DEF Stacked
    <3>3. i + l2[i].len <= Len(list) + 2
      BY <1>1, <1>2, <3>1, <3>2
    <3>4. ASSUME NEW k \in i .. i + l2[i].len - 1 PROVE l2[k].address = l2[i].address
      <4>1. CASE i < f
        <5>1. m = i /\ i + list[i].len <= f
          BY <1>2, <1>5, <3>1, <4>1
        <5>2. k \in m .. m + list[m].len - 1 /\ k \in 1 .. Len(list) /\ k < f
          BY <1>1, <1>2, <3>1, <3>2, <3>4, <5>1
        <5>3. l2[k] = list[k]
          BY <1>4, <5>2
        <5> QED BY <3>1, <3>2, <5>2, <5>3
      <4>2. CASE i > f
        <5>1. i = m + 1 /\ m >= f
          BY <1>2, <3>1, <4>2
        <5>2. k - 1 \in m .. m + list[m].len - 1 /\ k - 1 \in 1 .. Len(list) /\ f <= k - 1
              /\ (k - 1) + 1 = k
          BY <1>1, <1>2, <3>1, <3>2, <3>4, <5>1
        <5>3. l2[k] = list[k - 1]
          BY <1>4, <5>2
        <5> QED BY <3>1, <3>2, <5>2, <5>3
      <4> QED BY <3>1, <4>1, <4>2
    <3> QED BY <3>3, <3>4
  <2> QED BY <2>1, <2>2
<1>9. ASSUME NEW i \in 1 .. Len(list) + 1
      PROVE  \E g \in 1 .. Len(list) + 1 :
               /\ l2[g].address = l2[i].address
               /\ \A j \in 1 .. Len(list) + 1 : l2[j].address = l2[i].address => g <= j
  <2>1. CASE l2[i].address = a
    <3>1. ASSUME NEW j \in 1 .. Len(list) + 1, l2[j].address = a PROVE f <= j
      <4>1. CASE j = f
        BY <1>2, <4>1
      <4>2. CASE j # f
        <5>1. PICK m \in 1 .. Len(list) : /\ l2[j] = list[m]
                                          /\ (j < f /\ m = j) \/ (j > f /\ m >= f /\ j = m + 1)
          BY <1>6, <4>2
        <5> QED BY <1>2, <1>5, <3>1, <5>1
      <4> QED BY <4>1, <4>2
    <3> QED BY <1>2, <1>4, <2>1, <3>1
  <2>2. CASE l2[i].address # a
    <3>1. PICK m \in 1 .. Len(list) : l2[i] = list[m]
      BY <1>4, <1>6, <2>2
    <3>2. PICK g \in 1 .. Len(list) :
            /\ list[g].address = list[m].address
            /\ \A j \in 1 .. Len(list) : list[j].address = list[m].address => g <= j
      BY <1>1 DEF Stacked
    <3> DEFINE h == IF g < f THEN g ELSE g + 1
    <3>3. h \in 1 .. Len(list) + 1 /\ l2[h] = list[g]
      BY <1>1, <1>2, <1>4
    <3>4. ASSUME NEW j \in 1 .. Len(list) + 1, l2[j].address = l2[i].address PROVE h <= j
      <4>1. PICK k \in 1 .. Len(list) : /\ l2[j] = list[k]
                                        /\ (j < f /\ k = j) \/ (j > f /\ k >= f /\ j = k + 1)
        BY <1>4, <1>6, <2>2, <3>4
      <4>2. g <= k
        BY <3>1, <3>2, <3>4, <4>1
      <4> QED BY <1>2, <4>1, <4>2
    <3> QED BY <3>1, <3>2, <3>3, <3>4
  <2> QED BY <2>1, <2>2
<1>10. Len(l2) + 1 = Len(list) + 2
  BY <1>1, <1>4
<1> QED BY <1>4, <1>7, <1>8, <1>9, <1>10 DEF Stacked, l2

\* What is sent comes first to those that ask for its address ...
LEMMA InsertedOwn ==
  ASSUME NEW list \in Seq(Entry), Stacked(list), Len(list) < MAX_MESSAGES,
         NEW a \in Address, NEW b \in Body
  PROVE  MessagesTo(Inserted(list, a, b), a) = <<b>> \o MessagesTo(list, a)
<1> DEFINE f == FirstTo(list, a)
           n == CountAt(list, f)
           l2 == Inserted(list, a, b)
           m == MessagesTo(list, a)
           m2 == MessagesTo(l2, a)
<1>1. Len(list) \in Nat /\ f \in 1 .. Len(list) + 1 /\ n \in Nat /\ f + n <= Len(list) + 1
  BY EntryFacts, FirstToFacts, BoxFacts
<1>2. m \in Seq(Body) /\ Len(m) = n /\ \A k \in 1 .. n : m[k] = list[f + k - 1].body
  BY BoxFacts
<1>3. /\ l2 \in Seq(Entry) /\ Len(l2) = Len(list) + 1
      /\ \A j \in 1 .. Len(list) : j < f => l2[j] = list[j]
      /\ l2[f].address = a /\ l2[f].body = b /\ l2[f].len = n + 1
      /\ \A j \in 1 .. Len(list) : f <= j => l2[j + 1] = list[j]
  BY InsertedElements
<1>4. Stacked(l2)
  BY InsertedStacked
<1>5. \A j \in 1 .. Len(list) : list[j].address = a => f <= j
  BY PlaceFacts
<1> HIDE DEF f, n, l2, m
<1>6. FirstTo(l2, a) = f
  <2>1. ASSUME NEW j \in 1 .. Len(l2), l2[j].address = a PROVE f <= j
    <3>1. CASE j = f
      BY <1>1, <3>1
    <3>2. CASE j < f
      BY <1>1, <1>3, <1>5, <2>1, <3>2
    <3>3. CASE j > f
      BY <1>1, <3>3
    <3> QED BY <1>1, <1>3, <3>1, <3>2, <3>3
  <2>2. f \in 1 .. Len(l2) + 1
    BY <1>1, <1>3
  <2> QED BY <1>3, <1>4, <2>1, <2>2, FirstToIs
<1>7. CountAt(l2, f) = n + 1
  BY <1>1, <1>3 DEF CountAt
<1>8. m2 \in Seq(Body) /\ Len(m2) = n + 1 /\ \A k \in 1 .. n + 1 : m2[k] = l2[f + k - 1].body
  BY <1>3, <1>4, <1>6, <1>7, BoxFacts
<1> HIDE DEF m2
<1>9. <<b>> \in Seq(Body) /\ Len(<<b>>) = 1 /\ <<b>>[1] = b
  OBVIOUS
<1>10. /\ <<b>> \o m \in Seq(Body) /\ Len(<<b>> \o m) = n + 1
       /\ \A k \in 1 .. n + 1 : (<<b>> \o m)[k] = IF k <= 1 THEN b ELSE m[k - 1]
  <2>1. /\ <<b>> \o m \in Seq(Body) /\ Len(<<b>> \o m) = Len(<<b>>) + Len(m)
        /\ \A k \in 1 .. Len(<<b>>) + Len(m) :
             (<<b>> \o m)[k] = IF k <= Len(<<b>>) THEN <<b>>[k] ELSE m[k - Len(<<b>>)]
    BY <1>2, <1>9, ConcatProperties
  <2>2. Len(<<b>>) + Len(m) = n + 1
    BY <1>1, <1>2, <1>9
  <2>3. ASSUME NEW k \in 1 .. n + 1 PROVE k <= 1 => <<b>>[k] = b
    <3>1. k <= 1 => k = 1
      BY <1>1
    <3> QED BY <1>9, <3>1
  <2> QED BY <1>9, <2>1, <2>2, <2>3
<1>11. ASSUME NEW k \in 1 .. n + 1 PROVE m2[k] = (<<b>> \o m)[k]
  <2>1. CASE k = 1
    <3>1. f + k - 1 = f
      BY <1>1, <2>1
    <3> QED BY <1>3, <1>8, <1>10, <2>1, <3>1
  <2>2. CASE k # 1
    <3>1. /\ k - 1 \in 1 .. n /\ f + (k - 1) - 1 \in 1 .. Len(list) /\ f <= f + (k - 1) - 1
          /\ (f + (k - 1) - 1) + 1 = f + k - 1 /\ ~(k <= 1)
      BY <1>1, <2>2
    <3>2. l2[f + k - 1] = list[f + (k - 1) - 1]
      BY <1>3, <3>1
    <3>3. m[k - 1] = list[f + (k - 1) - 1].body
      BY <1>2, <3>1
    <3> QED BY <1>8, <1>10, <3>1, <3>2, <3>3
  <2> QED BY <2>1, <2>2
<1>12. Len(m2) = Len(<<b>> \o m)
  BY <1>8, <1>10
<1> QED BY <1>8, <1>10, <1>11, <1>12, SeqEqual DEF m, m2, l2

\* ... and those that ask for another find what they would have found.
LEMMA InsertedOther ==
  ASSUME NEW list \in Seq(Entry), Stacked(list), Len(list) < MAX_MESSAGES,
         NEW a \in Address, NEW b \in Body, NEW c, c # a
  PROVE  MessagesTo(Inserted(list, a, b), c) = MessagesTo(list, c)
<1> DEFINE f == FirstTo(list, a)
           g == FirstTo(list, c)
           n == CountAt(list, f)
           k == CountAt(list, g)
           l2 == Inserted(list, a, b)
           g2 == IF g < f THEN g ELSE g + 1
<1>1. /\ Len(list) \in Nat /\ f \in 1 .. Len(list) + 1 /\ g \in 1 .. Len(list) + 1
      /\ k \in Nat /\ g + k <= Len(list) + 1
  BY EntryFacts, FirstToFacts, BoxFacts
<1>2. /\ g <= Len(list) => list[g].address = c
      /\ f <= Len(list) => list[f].address = a
  BY FirstToFacts
<1>3. /\ l2 \in Seq(Entry) /\ Len(l2) = Len(list) + 1
      /\ \A j \in 1 .. Len(list) : j < f => l2[j] = list[j]
      /\ l2[f].address = a
      /\ \A j \in 1 .. Len(list) : f <= j => l2[j + 1] = list[j]
  BY InsertedElements
<1>4. Stacked(l2)
  BY InsertedStacked
<1>5. \A j \in 1 .. Len(list) : j < f => j + list[j].len <= f
  BY PlaceFacts
<1>6. \A j \in 1 .. Len(list) : list[j].address = c => g <= j
  BY FirstToFacts
<1>7. MessagesTo(list, c) = [j \in 1 .. k |-> list[g + j - 1].body]
  BY DEF MessagesTo
<1>8. k = IF g > Len(list) THEN 0 ELSE list[g].len
  BY DEF CountAt
<1> HIDE DEF f, g, n, k, l2
<1>9. FirstTo(l2, c) = g2
  <2>1. g2 \in 1 .. Len(l2) + 1
    BY <1>1, <1>3
  <2>2. g2 <= Len(l2) => l2[g2].address = c
    BY <1>1, <1>2, <1>3
  <2>3. ASSUME NEW j \in 1 .. Len(l2), l2[j].address = c PROVE g2 <= j
    <3>1. CASE j < f
      BY <1>1, <1>3, <1>6, <2>3, <3>1
    <3>2. CASE j > f
      <4>1. j - 1 \in 1 .. Len(list) /\ f <= j - 1 /\ (j - 1) + 1 = j
        BY <1>1, <1>3, <3>2
      <4>2. l2[j] = list[j - 1]
        BY <1>3, <4>1
      <4> QED BY <1>1, <1>6, <2>3, <4>1, <4>2
    <3> QED BY <1>1, <1>3, <2>3, <3>1, <3>2
  <2> HIDE DEF g2
  <2> QED BY <1>3, <1>4, <2>1, <2>2, <2>3, FirstToIs
<1>10. CountAt(l2, g2) = k
  BY <1>1, <1>3, <1>8 DEF CountAt
<1>11. ASSUME NEW j \in 1 .. k PROVE l2[g2 + j - 1] = list[g + j - 1]
  <2>1. g \in 1 .. Len(list) /\ k = list[g].len /\ g + j - 1 \in 1 .. Len(list)
    BY <1>1, <1>8
  <2>2. CASE g < f
    <3>1. g + k <= f /\ g + j - 1 < f
      BY <1>1, <1>5, <2>1, <2>2
    <3> QED BY <1>3, <2>1, <2>2, <3>1
  <2>3. CASE ~(g < f)
    <3>1. f <= g + j - 1 /\ g2 + j - 1 = (g + j - 1) + 1
      BY <1>1, <2>3
    <3> QED BY <1>3, <2>1, <3>1
  <2> QED BY <2>2, <2>3
<1> HIDE DEF g2
<1>12. MessagesTo(l2, c) = [j \in 1 .. k |-> l2[g2 + j - 1].body]
  BY <1>9, <1>10 DEF MessagesTo
<1> QED BY <1>7, <1>11, <1>12 DEF l2

LEMMA InsertedBodies ==
  ASSUME NEW list \in Seq(Entry), Stacked(list), Len(list) < MAX_MESSAGES,
         NEW a \in Address, NEW b \in Body
  PROVE  Bodies(Inserted(list, a, b)) \subseteq Bodies(list) \cup {b}
<1> DEFINE f == FirstTo(list, a)
           n == CountAt(list, f)
           l2 == Inserted(list, a, b)
<1>1. Len(list) \in Nat /\ f \in 1 .. Len(list) + 1 /\ DOMAIN list = 1 .. Len(list)
  BY EntryFacts, FirstToFacts
<1>2. /\ Len(l2) = Len(list) + 1 /\ DOMAIN l2 = 1 .. Len(list) + 1
      /\ \A j \in 1 .. Len(list) : j < f => l2[j] = list[j]
      /\ l2[f].body = b
      /\ \A j \in 1 .. Len(list) : f <= j => l2[j + 1] = list[j]
  BY InsertedElements
<1> HIDE DEF f, l2
<1>3. ASSUME NEW i \in 1 .. Len(list) + 1 PROVE l2[i].body \in Bodies(list) \cup {b}
  <2>1. CASE i < f
    BY <1>1, <1>2, <2>1 DEF Bodies
  <2>2. CASE i > f
    <3>1. i - 1 \in 1 .. Len(list) /\ f <= i - 1 /\ (i - 1) + 1 = i
      BY <1>1, <2>2
    <3> QED BY <1>1, <1>2, <3>1 DEF Bodies
  <2> QED BY <1>1, <1>2, <2>1, <2>2
<1> QED BY <1>2, <1>3 DEF Bodies, l2

USE DEF vars, mailVars, pauseVars, frameVars

-----------------------------------------------------------------------------
(* One lemma per action *)

\* The two buffers are two, and what an actor is handed comes from the one that is read.
LEMMA BufferFacts ==
  ASSUME IInv
  PROVE  /\ which_buffer \in {0, 1} /\ 1 - which_buffer \in {0, 1}
         /\ 1 - (1 - which_buffer) = which_buffer /\ which_buffer # 1 - which_buffer
         /\ ReadList \in Seq(Entry) /\ WriteList \in Seq(Entry)
         /\ Stacked(ReadList) /\ Stacked(WriteList)
         /\ \A u \in Actor : Held(u) \subseteq Bodies(ReadList)
<1>1. which_buffer \in {0, 1} /\ message_list \in [{0, 1} -> Seq(Entry)]
  BY DEF IInv, TypeOK
<1>2. /\ 1 - which_buffer \in {0, 1} /\ 1 - (1 - which_buffer) = which_buffer
      /\ which_buffer # 1 - which_buffer
  BY <1>1
<1>3. ReadList \in Seq(Entry) /\ WriteList \in Seq(Entry) /\ Stacked(ReadList) /\ Stacked(WriteList)
  BY <1>1, <1>2 DEF IInv, ReadList, WriteList
<1>4. \A u \in Actor : Held(u) \subseteq Bodies(ReadList)
  BY <1>3, BoxFacts DEF Held, ReadList
<1> QED BY <1>1, <1>2, <1>3, <1>4

\* Messages do not change: those held and those that can still be sent stay apart.
LEMMA MailFrame ==
  ASSUME IInv, UNCHANGED <<mailVars, sent, got>>
  PROVE  /\ \A i \in {0, 1} : Stacked(message_list'[i])
         /\ Unread' /\ \A u \in Actor : Held(u)' = Held(u)
BY DEF IInv, Unread, ReadList, WriteList, Held

LEMMA DaemonStep == ASSUME IInv, Daemon PROVE IInv'
<1>1. /\ group = "daemon" /\ group' = "managers"
      /\ UNCHANGED <<GV_PauseLevel, open, todo, sent, got, rejected>>
      /\ todo = {}
  BY DEF Daemon, IInv, Running, Members
<1>2. Running' /\ Paused' /\ Behind' = Behind
  BY <1>1 DEF IInv, Running, Paused, Behind, Members
<1>3. ASSUME NEW u \in Actor PROVE Served(u)' = (u \in Assistant /\ Behind)
  BY <1>1, <1>2 DEF Served, Members
<1>4. CASE GV_PauseLevel # {}
  <2>1. UNCHANGED mailVars
    BY <1>4 DEF Daemon
  <2>2. \A u \in Actor : Served(u)' = Served(u)
    BY <1>1, <1>3, <1>4 DEF Served, Members
  <2>3. Turns'
    BY <1>1, <2>1, <2>2, MailFrame DEF IInv, Turns
  <2>4. TypeOK'
    BY <1>1, <2>1 DEF IInv, TypeOK, Group
  <2> QED BY <1>1, <1>2, <2>1, <2>3, <2>4, MailFrame DEF IInv
<1>5. CASE GV_PauseLevel = {}
  <2>1. /\ which_buffer' = 1 - which_buffer
        /\ message_list' = [message_list EXCEPT ![which_buffer] = <<>>]
    BY <1>5 DEF Daemon, GV_ClearMessageSystem
  <2>2. /\ message_list \in [{0, 1} -> Seq(Entry)] /\ message_list' \in [{0, 1} -> Seq(Entry)]
        /\ message_list'[which_buffer] = <<>>
        /\ message_list'[1 - which_buffer] = WriteList
        /\ ReadList' = WriteList /\ WriteList' = <<>>
    BY <2>1, BufferFacts, EmptyList DEF IInv, TypeOK, ReadList, WriteList
  <2>3. TypeOK'
    <3>1. \A i \in {0, 1} : Len(message_list'[i]) <= MAX_MESSAGES
      BY <2>1, <2>2, BufferFacts, MessageAssumption DEF IInv, TypeOK
    <3> QED BY <1>1, <2>1, <2>2, <3>1, BufferFacts DEF IInv, TypeOK, Group
  <2>4. \A i \in {0, 1} : Stacked(message_list'[i])
    BY <2>2, BufferFacts, EmptyList
  <2>5. Unread'
    BY <1>1, <2>2, EmptyList DEF IInv, Unread
  <2>6. ASSUME NEW u \in Actor PROVE ~Served(u)' /\ Held(u)' \cap got'[u] = {}
    <3>1. Held(u)' = ToSet(MessagesTo(WriteList, Home[u]))
      BY <2>2 DEF Held, ReadList
    <3>2. Held(u)' \subseteq Bodies(WriteList)
      BY <3>1, BufferFacts, BoxFacts
    <3>3. ~Behind
      BY <1>5 DEF Behind
    <3> QED BY <1>1, <1>3, <3>2, <3>3 DEF IInv, Unread
  <2> QED BY <1>2, <2>3, <2>4, <2>5, <2>6 DEF IInv, Turns
<1> QED BY <1>4, <1>5

LEMMA NextGroupStep == ASSUME IInv, NextGroup PROVE IInv'
<1>1. /\ group \in Group \ {"daemon"} /\ todo = {} /\ group' = Follows(group)
      /\ todo' = {u \in Members(group') : Runs(group', GV_PauseLevel)}
      /\ UNCHANGED <<mailVars, GV_PauseLevel, open, sent, got, rejected>>
  BY DEF NextGroup, IInv, TypeOK
<1>2. group' \in Group /\ todo' \subseteq Actor
  BY <1>1, MessageAssumption DEF Group, Follows, Members
<1>3. TypeOK'
  BY <1>1, <1>2 DEF IInv, TypeOK
<1>4. Running'
  BY <1>1 DEF Running, Runs
<1>5. Paused' /\ Behind' = Behind
  BY <1>1 DEF IInv, Paused, Behind
<1>6. ASSUME NEW u \in Actor PROVE Served(u)' = Served(u)
  <2>0. GV_PauseLevel = {} => \A g \in Group : Runs(g, GV_PauseLevel)
    BY DEF Runs, Group
  <2>1. CASE group = "managers"
    <3>1. group' = "assistants" /\ Members(group) = {} /\ Members(group') = Assistant
      BY <1>1, <2>1 DEF Follows, Members
    <3>2. GV_PauseLevel = {} => ~Behind /\ todo' = Assistant
      BY <1>1, <1>2, <2>0, <3>1 DEF Behind
    <3> QED BY <1>1, <1>5, <2>1, <3>1, <3>2 DEF Served
  <2>2. CASE group = "assistants"
    <3>1. group' = "cancellers" /\ Members(group) = Assistant /\ Members(group') = {}
      BY <1>1, <2>2 DEF Follows, Members
    <3> QED BY <1>1, <1>5, <2>2, <3>1 DEF Served
  <2>3. CASE group = "cancellers"
    <3>1. group' = "others" /\ Members(group) = {} /\ Members(group') = Actor \ Assistant
      BY <1>1, <2>3 DEF Follows, Members
    <3>2. GV_PauseLevel = {} => todo' = Actor \ Assistant
      BY <1>1, <1>2, <2>0, <3>1
    <3> QED BY <1>1, <1>5, <2>3, <3>1, <3>2 DEF Served
  <2>4. CASE group = "others"
    <3>1. group' = "daemon" /\ Members(group) = Actor \ Assistant /\ Members(group') = {}
      BY <1>1, <2>4 DEF Follows, Members
    <3> QED BY <1>1, <1>5, <2>4, <3>1 DEF Served
  <2> QED BY <1>1, <2>1, <2>2, <2>3, <2>4 DEF Group
<1>7. Turns'
  BY <1>1, <1>6, MailFrame DEF IInv, Turns
<1> QED BY <1>1, <1>3, <1>4, <1>5, <1>7, MailFrame DEF IInv

\* In a group of pausers no actor runs, and only the pause level says who has had its turn.
LEMMA PauserGroups ==
  ASSUME IInv, NEW p \in Pauser, Acts(p)
  PROVE  /\ group = IF p \in Late THEN "cancellers" ELSE "managers"
         /\ p \in Late => GV_LEVEL_STOP \cap GV_PauseLevel = {}
         /\ Members(group) = {} /\ todo = {}
         /\ \A u \in Actor : Served(u) = IF u \in Assistant
                                         THEN Behind \/ (GV_PauseLevel = {} /\ p \in Late)
                                         ELSE FALSE
<1>1. group = IF p \in Late THEN "cancellers" ELSE "managers"
  BY DEF Acts
<1>2. Members(group) = {} /\ todo = {}
  BY <1>1 DEF Members, IInv, Running
<1>3. p \in Late => GV_LEVEL_STOP \cap GV_PauseLevel = {}
  BY <1>1 DEF Acts, Runs
<1> QED BY <1>1, <1>2, <1>3 DEF Served

\* ... so that what matters is whether the assistants have had theirs.
LEMMA PauserFrame ==
  ASSUME IInv, NEW p \in Pauser, Acts(p), UNCHANGED <<mailVars, frameVars, sent, got, rejected>>,
         open' \subseteq Pauser, GV_PauseLevel' \subseteq {Bit[q] : q \in Pauser}, Paused',
         (Behind' \/ (GV_PauseLevel' = {} /\ p \in Late))
           <=> (Behind \/ (GV_PauseLevel = {} /\ p \in Late))
  PROVE  IInv'
<1>1. TypeOK'
  BY DEF IInv, TypeOK
<1>2. Running'
  BY PauserGroups DEF Running
<1>3. ASSUME NEW u \in Actor PROVE Served(u)' <=> Served(u)
  BY PauserGroups DEF Served, Members
<1>4. Turns'
  BY <1>3, MailFrame DEF IInv, Turns
<1> QED BY <1>1, <1>2, <1>4, MailFrame DEF IInv

LEMMA PauseStep == ASSUME IInv, NEW p \in Pauser, Pause(p) PROVE IInv'
<1>1. /\ Acts(p) /\ p \notin open /\ MayPause(p) /\ open' = open \cup {p}
      /\ GV_PauseLevel' = GV_PauseLevel \cup {Bit[p]}
      /\ UNCHANGED <<mailVars, frameVars, sent, got, rejected>>
  BY DEF Pause
<1>2. /\ \A b \in GV_PauseLevel : \E q \in open : Bit[q] = b
      /\ \A m \in open \ Late, q \in open \cap Late : Bit[m] \in GV_LEVEL_STOP
      /\ open \subseteq Pauser
  BY DEF IInv, Paused, TypeOK
<1>3. \A q \in open : (q \in Late <=> p \in Late) \/ Bit[p] \in GV_LEVEL_STOP
  BY <1>1 DEF MayPause
<1>4. Paused'
  BY <1>1, <1>2, <1>3, MessageAssumption DEF Paused
<1>5. (Behind' \/ (GV_PauseLevel' = {} /\ p \in Late))
        <=> (Behind \/ (GV_PauseLevel = {} /\ p \in Late))
  <2>1. CASE p \in Late
    <3>1. Behind'
      BY <1>1, <2>1 DEF Behind
    <3>2. ASSUME GV_PauseLevel # {} PROVE Behind
      <4>1. PICK q \in open : Bit[q] \in GV_PauseLevel
        BY <1>2, <3>2
      <4>2. q \in Late
        BY <1>3, <2>1, MessageAssumption
      <4> QED BY <4>1, <4>2 DEF Behind
    <3> QED BY <2>1, <3>1, <3>2
  <2>2. CASE p \notin Late
    <3>1. Behind => Behind'
      BY <1>1 DEF Behind
    <3>2. ASSUME NEW q \in open' \cap Late, Bit[q] \in GV_PauseLevel' PROVE Behind
      <4>1. q \in open \cap Late
        BY <1>1, <2>2, <3>2
      <4>2. Bit[q] # Bit[p]
        BY <1>3, <2>2, <4>1, MessageAssumption
      <4> QED BY <1>1, <3>2, <4>1, <4>2 DEF Behind
    <3> QED BY <2>2, <3>1, <3>2 DEF Behind
  <2> QED BY <2>1, <2>2
<1>6. open' \subseteq Pauser /\ GV_PauseLevel' \subseteq {Bit[q] : q \in Pauser}
  BY <1>1 DEF IInv, TypeOK
<1> QED BY <1>1, <1>4, <1>5, <1>6, PauserFrame

LEMMA UnpauseStep == ASSUME IInv, NEW p \in Pauser, Unpause(p) PROVE IInv'
<1>1. /\ Acts(p) /\ p \in open /\ open' = open \ {p}
      /\ GV_PauseLevel' = GV_PauseLevel \ {Bit[p]}
      /\ UNCHANGED <<mailVars, frameVars, sent, got, rejected>>
  BY DEF Unpause
<1>2. /\ \A b \in GV_PauseLevel : \E q \in open : Bit[q] = b
      /\ \A m \in open \ Late, q \in open \cap Late : Bit[m] \in GV_LEVEL_STOP
      /\ open \subseteq Pauser
  BY DEF IInv, Paused, TypeOK
<1>3. Paused'
  BY <1>1, <1>2 DEF Paused
<1>4. Behind' => Behind
  BY <1>1 DEF Behind
<1>5. (Behind' \/ (GV_PauseLevel' = {} /\ p \in Late))
        <=> (Behind \/ (GV_PauseLevel = {} /\ p \in Late))
  <2>1. CASE p \in Late
    <3>1. GV_LEVEL_STOP \cap GV_PauseLevel = {}
      BY <1>1, <2>1, PauserGroups
    <3>2. ASSUME GV_PauseLevel' = {} PROVE GV_PauseLevel = {} \/ Behind
      BY <1>1, <2>1, <3>2 DEF Behind
    <3>3. ASSUME NEW b \in GV_PauseLevel' PROVE Behind'
      <4>1. PICK q \in open : Bit[q] = b
        BY <1>1, <1>2, <3>3
      <4>2. q # p /\ b \in GV_PauseLevel
        BY <1>1, <3>3, <4>1
      <4>3. q \in Late
        BY <1>1, <1>2, <2>1, <3>1, <4>1, <4>2
      <4> QED BY <1>1, <3>3, <4>1, <4>2, <4>3 DEF Behind
    <3>4. GV_PauseLevel = {} => GV_PauseLevel' = {}
      BY <1>1
    <3> QED BY <1>4, <2>1, <3>2, <3>3, <3>4
  <2>2. CASE p \notin Late
    <3>1. ASSUME NEW q \in open \cap Late, Bit[q] \in GV_PauseLevel PROVE Behind'
      <4>1. Bit[p] \in GV_LEVEL_STOP /\ Bit[q] \notin GV_LEVEL_STOP
        BY <1>1, <1>2, <2>2, MessageAssumption
      <4> QED BY <1>1, <2>2, <3>1, <4>1 DEF Behind
    <3> QED BY <1>4, <2>2, <3>1 DEF Behind
  <2> QED BY <2>1, <2>2
<1>6. open' \subseteq Pauser /\ GV_PauseLevel' \subseteq {Bit[q] : q \in Pauser}
  BY <1>1 DEF IInv, TypeOK
<1> QED BY <1>1, <1>3, <1>5, <1>6, PauserFrame

LEMMA SendStep == ASSUME IInv, NEW a \in Address, SendMessage(a) PROVE IInv'
<1> DEFINE w == 1 - which_buffer
<1>1. /\ sent < SendLimit /\ sent' = sent + 1
      /\ UNCHANGED <<which_buffer, GV_PauseLevel, open, group, todo, got>>
      /\ \/ rejected' = TRUE /\ message_list' = message_list
         \/ /\ Len(WriteList) < MAX_MESSAGES
            /\ rejected' = FALSE
            /\ message_list' = [message_list EXCEPT ![w] = Inserted(WriteList, a, sent')]
  BY DEF SendMessage, GV_SendMessage, WriteList
<1>2. sent \in Nat /\ sent' \in Body /\ sent' \in 0 .. SendLimit
  BY <1>1, MessageAssumption DEF IInv, TypeOK, Body
<1>3. /\ message_list \in [{0, 1} -> Seq(Entry)] /\ w \in {0, 1} /\ which_buffer # w
      /\ which_buffer \in {0, 1}
  BY BufferFacts DEF IInv, TypeOK
<1>4. ReadList' = ReadList /\ \A u \in Actor : Held(u)' = Held(u)
  BY <1>1, <1>3 DEF ReadList, Held
<1>5. /\ WriteList' \in Seq(Entry) /\ Stacked(WriteList') /\ Len(WriteList') <= MAX_MESSAGES
      /\ Bodies(WriteList') \subseteq Bodies(WriteList) \cup {sent'}
      /\ message_list' \in [{0, 1} -> Seq(Entry)]
  <2>1. CASE message_list' = message_list
    BY <1>1, <1>3, <2>1, BufferFacts DEF WriteList, IInv, TypeOK
  <2>2. CASE /\ Len(WriteList) < MAX_MESSAGES
             /\ message_list' = [message_list EXCEPT ![w] = Inserted(WriteList, a, sent')]
    <3>1. WriteList' = Inserted(WriteList, a, sent')
      BY <1>1, <1>3, <2>2 DEF WriteList
    <3>2. /\ Inserted(WriteList, a, sent') \in Seq(Entry)
          /\ Len(Inserted(WriteList, a, sent')) = Len(WriteList) + 1
      BY <1>2, <2>2, BufferFacts, InsertedElements
    <3>3. Len(WriteList) \in Nat
      BY BufferFacts, EntryFacts
    <3>4. Len(WriteList') <= MAX_MESSAGES
      BY <2>2, <3>1, <3>2, <3>3, MessageAssumption
    <3>5. Stacked(WriteList') /\ Bodies(WriteList') \subseteq Bodies(WriteList) \cup {sent'}
      BY <1>2, <2>2, <3>1, BufferFacts, InsertedStacked, InsertedBodies
    <3> QED BY <1>3, <2>2, <3>1, <3>2, <3>4, <3>5
  <2> QED BY <1>1, <2>1, <2>2
<1>6. \A i \in {0, 1} : i = which_buffer \/ i = w
  BY <1>3
<1>7. \A i \in {0, 1} : message_list'[i] = IF i = which_buffer THEN ReadList ELSE WriteList'
  BY <1>1, <1>3, <1>4, <1>6 DEF ReadList, WriteList
<1>8. TypeOK'
  <2>1. \A i \in {0, 1} : Len(message_list'[i]) <= MAX_MESSAGES
    BY <1>3, <1>5, <1>7 DEF IInv, TypeOK, ReadList
  <2>2. rejected' \in BOOLEAN
    BY <1>1
  <2> QED BY <1>1, <1>2, <1>5, <2>1, <2>2 DEF IInv, TypeOK
<1>9. \A i \in {0, 1} : Stacked(message_list'[i])
  BY <1>5, <1>7, BufferFacts
<1>10. Unread'
  <2>1. \A b \in Bodies(ReadList) \cup Bodies(WriteList) : b \in Nat /\ b <= sent
    <3>1. \A b \in Bodies(ReadList) \cup Bodies(WriteList) : b \in Body
      BY BufferFacts, EntryFacts DEF Bodies
    <3> QED BY <3>1 DEF IInv, Unread, Body
  <2>2. \A u \in Actor : \A b \in got[u] : b \in Nat /\ b <= sent
    BY DEF IInv, Unread, TypeOK, Body
  <2>3. sent' \notin Bodies(ReadList) /\ \A u \in Actor : sent' \notin got[u]
    BY <1>1, <1>2, <2>1, <2>2
  <2>4. /\ \A b \in Bodies(ReadList) \cup Bodies(WriteList') : b <= sent'
        /\ \A u \in Actor : \A b \in got[u] : b <= sent'
    BY <1>1, <1>2, <1>5, <2>1, <2>2
  <2> QED BY <1>1, <1>4, <1>5, <2>3, <2>4 DEF IInv, Unread
<1>11. Running' /\ Paused'
  BY <1>1 DEF IInv, Running, Paused
<1>12. Turns'
  BY <1>1, <1>4 DEF IInv, Turns, Served, Behind
<1> QED BY <1>8, <1>9, <1>10, <1>11, <1>12 DEF IInv

LEMMA ResetStep == ASSUME IInv, ResetSystem PROVE IInv'
<1>1. /\ message_list' = [i \in {0, 1} |-> <<>>] /\ which_buffer' = 0
      /\ UNCHANGED <<GV_PauseLevel, open, group, todo, sent, got, rejected>>
  BY DEF ResetSystem, GV_InitMessageSystem
<1>2. \A i \in {0, 1} : message_list'[i] = <<>>
  BY <1>1
<1>3. ReadList' = <<>> /\ WriteList' = <<>>
  BY <1>1, <1>2 DEF ReadList, WriteList
<1>4. TypeOK'
  BY <1>1, <1>2, EmptyList, MessageAssumption DEF IInv, TypeOK
<1>5. \A i \in {0, 1} : Stacked(message_list'[i])
  BY <1>2, EmptyList
<1>6. Unread'
  BY <1>1, <1>3, EmptyList DEF IInv, Unread
<1>7. \A u \in Actor : Held(u)' = {}
  BY <1>3, EmptyList DEF Held, ReadList, ToSet
<1>8. Running' /\ Paused' /\ Turns'
  BY <1>1, <1>7 DEF IInv, Running, Paused, Turns
<1> QED BY <1>4, <1>5, <1>6, <1>8 DEF IInv

LEMMA RunActorStep == ASSUME IInv, NEW u \in Actor, RunActor(u) PROVE IInv'
<1>1. /\ u \in todo /\ todo' = todo \ {u}
      /\ got' = [got EXCEPT ![u] = @ \cup ToSet(GV_ReceiveMessage(Home[u]))]
      /\ UNCHANGED <<mailVars, GV_PauseLevel, open, group, sent, rejected>>
  BY DEF RunActor
<1>2. got \in [Actor -> SUBSET Body] /\ todo \subseteq Members(group)
  BY DEF IInv, TypeOK, Running
<1>3. got'[u] = got[u] \cup (IF GV_PauseLevel # {} THEN {} ELSE Held(u))
  BY <1>1, <1>2 DEF GV_ReceiveMessage, Held, ToSet
<1>4. \A v \in Actor : v # u => got'[v] = got[v]
  BY <1>1, <1>2
<1>5. Held(u) \subseteq Body /\ Held(u) \subseteq Bodies(ReadList)
  BY BufferFacts, EntryFacts DEF Bodies
<1>6. TypeOK'
  <2>1. got' \in [Actor -> SUBSET Body]
    BY <1>1, <1>2, <1>3, <1>5
  <2> QED BY <1>1, <2>1 DEF IInv, TypeOK
<1>7. \A i \in {0, 1} : Stacked(message_list'[i])
  BY <1>1 DEF IInv
<1>8. Unread'
  <2>1. ReadList' = ReadList /\ WriteList' = WriteList
    BY <1>1 DEF ReadList, WriteList
  <2>2. ASSUME NEW v \in Actor
        PROVE  got'[v] \cap Bodies(WriteList) = {} /\ \A b \in got'[v] : b <= sent
    BY <1>3, <1>4, <1>5 DEF IInv, Unread
  <2> QED BY <1>1, <2>1, <2>2 DEF IInv, Unread
<1>9. Running' /\ Paused' /\ Behind' = Behind
  BY <1>1 DEF IInv, Running, Paused, Behind
<1>10. Turns'
  <2>1. \A v \in Actor : Held(v)' = Held(v)
    BY <1>1 DEF Held
  <2>2. ASSUME NEW v \in Actor, v # u PROVE Served(v)' = Served(v)
    BY <1>1, <1>9, <2>2 DEF Served
  <2>3. CASE GV_PauseLevel = {}
    BY <1>1, <1>2, <1>3, <1>4, <2>1, <2>2, <2>3 DEF IInv, Turns, Served
  <2>4. CASE GV_PauseLevel # {}
    <3>1. Served(u)' = Served(u) /\ got'[u] = got[u]
      BY <1>1, <1>3, <1>9, <2>4 DEF Served
    <3> QED BY <1>4, <2>1, <2>2, <3>1 DEF IInv, Turns
  <2> QED BY <2>3, <2>4
<1> QED BY <1>6, <1>7, <1>8, <1>9, <1>10 DEF IInv

LEMMA InitInvariant == Init => IInv
<1> SUFFICES ASSUME Init PROVE IInv
  OBVIOUS
<1>1. /\ message_list = [i \in {0, 1} |-> <<>>] /\ which_buffer = 0
      /\ GV_PauseLevel = {} /\ open = {}
      /\ group = "daemon" /\ todo = {} /\ sent = 0 /\ got = [u \in Actor |-> {}] /\ rejected = FALSE
  BY DEF Init
<1>2. ReadList = <<>> /\ WriteList = <<>> /\ \A i \in {0, 1} : message_list[i] = <<>>
  BY <1>1 DEF ReadList, WriteList
<1>3. TypeOK
  BY <1>1, <1>2, EmptyList, MessageAssumption DEF TypeOK, Group
<1>4. \A u \in Actor : Held(u) = {}
  BY <1>2, EmptyList DEF Held, ReadList, ToSet
<1>5. Unread /\ Running /\ Paused /\ Turns
  BY <1>1, <1>2, <1>4, EmptyList DEF Unread, Running, Paused, Turns
<1> QED BY <1>2, <1>3, <1>5, EmptyList DEF IInv

LEMMA StutterStep == ASSUME IInv, UNCHANGED vars PROVE IInv'
<1>1. TypeOK' /\ Running' /\ Paused' /\ \A u \in Actor : Served(u)' = Served(u)
  BY DEF IInv, TypeOK, Running, Paused, Served, Behind
<1> QED BY <1>1, MailFrame DEF IInv, Turns

THEOREM Invariant == Spec => []IInv
<1>1. IInv /\ [Next]_vars => IInv'
  BY DaemonStep, NextGroupStep, PauseStep, UnpauseStep, SendStep, ResetStep, RunActorStep,
     StutterStep DEF Next
<1> QED BY <1>1, InitInvariant, PTL DEF Spec

\* Only an actor that has its turn receives, and it has had nothing of these messages yet.
THEOREM NeverTwiceHolds == Spec => []NeverTwice
<1>1. IInv => NeverTwice
  <2> SUFFICES ASSUME IInv, NEW u \in todo PROVE ToSet(GV_ReceiveMessage(Home[u])) \cap got[u] = {}
    BY DEF NeverTwice, IInv
  <2>1. u \in Actor /\ u \in Members(group)
    BY DEF IInv, TypeOK, Running
  <2>2. CASE GV_PauseLevel = {}
    <3>1. ~Served(u) /\ ToSet(GV_ReceiveMessage(Home[u])) = Held(u)
      BY <2>1, <2>2 DEF Served, GV_ReceiveMessage, Held
    <3> QED BY <2>1, <3>1 DEF IInv, Turns
  <2>3. CASE GV_PauseLevel # {}
    BY <2>3 DEF GV_ReceiveMessage, ToSet
  <2> QED BY <2>2, <2>3
<1> QED BY <1>1, Invariant, PTL

\* When the buffers change places every actor has had its turn.
THEOREM NeverLostHolds == Spec => []NeverLost
<1>1. IInv => NeverLost
  <2> SUFFICES ASSUME IInv, group = "daemon", GV_PauseLevel = {}, NEW u \in Actor
               PROVE  Held(u) \subseteq got[u]
    BY DEF NeverLost
  <2>1. Served(u)
    BY DEF Served, Members
  <2> QED BY <2>1 DEF IInv, Turns
<1> QED BY <1>1, Invariant, PTL

-----------------------------------------------------------------------------
(* The mailbox *)

\* The boxes of a buffer, and the pairs (address, place) that GvMailbox counts.
Boxes(list) == [a \in Address |-> MessagesTo(list, a)]
Pairs(list) == UNION {{a} \X DOMAIN Boxes(list)[a] : a \in Address}

\* Every message of a buffer is in one box, at one place.
LEMMA PairsCount ==
  ASSUME NEW list \in Seq(Entry), Stacked(list)
  PROVE  Cardinality(Pairs(list)) = Len(list)
<1> DEFINE f(a) == FirstTo(list, a)
           n(a) == CountAt(list, f(a))
           g == [i \in 1 .. Len(list) |-> <<list[i].address, i - f(list[i].address) + 1>>]
<1>1. /\ Len(list) \in Nat
      /\ \A i \in 1 .. Len(list) : /\ list[i].address \in Address
                                   /\ list[i].len \in Nat /\ list[i].len >= 1
  BY EntryFacts
<1>2. \A a \in Address : /\ f(a) \in 1 .. Len(list) + 1 /\ n(a) \in Nat
                         /\ f(a) + n(a) <= Len(list) + 1
                         /\ DOMAIN MessagesTo(list, a) = 1 .. n(a)
  BY FirstToFacts, BoxFacts
<1>3. \A a \in Address : \A i \in 1 .. Len(list) :
        list[i].address = a => f(a) <= i /\ f(a) + n(a) = i + list[i].len
  BY PlaceFacts
<1>4. \A a \in Address : \A i \in 1 .. Len(list) :
        f(a) <= i /\ i < f(a) + n(a) => list[i].address = a
  BY PlaceFacts
<1>5. Pairs(list) = UNION {{a} \X (1 .. n(a)) : a \in Address}
  BY <1>2 DEF Pairs, Boxes
<1> HIDE DEF f, n
<1>6. ASSUME NEW i \in 1 .. Len(list) PROVE g[i] \in Pairs(list)
  <2>1. PICK a \in Address : a = list[i].address
    BY <1>1
  <2>2. f(a) <= i /\ f(a) + n(a) = i + list[i].len
    BY <1>3, <2>1
  <2>3. i - f(a) + 1 \in 1 .. n(a)
    BY <1>1, <1>2, <2>1, <2>2
  <2> QED BY <1>5, <2>1, <2>3
<1>7. ASSUME NEW i \in 1 .. Len(list), NEW j \in 1 .. Len(list), g[i] = g[j] PROVE i = j
  <2>1. list[i].address = list[j].address
        /\ i - f(list[i].address) + 1 = j - f(list[j].address) + 1
    BY <1>7
  <2>2. PICK k \in Int : k = f(list[i].address)
    BY <1>1, <1>2
  <2>3. i - k + 1 = j - k + 1
    BY <2>1, <2>2
  <2> QED BY <1>1, <2>2, <2>3
<1>8. ASSUME NEW p \in Pairs(list) PROVE \E i \in 1 .. Len(list) : g[i] = p
  <2>1. PICK a \in Address : p \in {a} \X (1 .. n(a))
    BY <1>5
  <2>2. PICK k \in 1 .. n(a) : p = <<a, k>>
    BY <2>1
  <2>3. f(a) + k - 1 \in 1 .. Len(list) /\ f(a) <= f(a) + k - 1 /\ f(a) + k - 1 < f(a) + n(a)
        /\ (f(a) + k - 1) - f(a) + 1 = k
    BY <1>1, <1>2, <2>2
  <2>4. list[f(a) + k - 1].address = a
    BY <1>4, <2>3
  <2> QED BY <2>2, <2>3, <2>4
<1>9. g \in Bijection(1 .. Len(list), Pairs(list))
  <2>1. g \in [1 .. Len(list) -> Pairs(list)]
    BY <1>6
  <2> HIDE DEF g
  <2> QED BY <2>1, <1>7, <1>8 DEF Bijection, Injection, IsInjective, Surjection
<1> HIDE DEF g
<1>10. ExistsBijection(1 .. Len(list), Pairs(list))
  BY <1>9 DEF ExistsBijection
<1>11. IsFiniteSet(1 .. Len(list)) /\ Cardinality(1 .. Len(list)) = Len(list)
  <2>1. /\ 1 \in Int /\ Len(list) \in Int /\ (1 > Len(list) => Len(list) = 0)
        /\ Len(list) - 1 + 1 = Len(list)
    BY <1>1
  <2> QED BY <2>1, FS_Interval
<1> QED BY <1>10, <1>11, FS_Bijection

\* The buffers keep the promise of GvMailbox, whatever the order of the addresses and
\* however often the game is paused.
THEOREM ImplementsMailbox == Spec => IsMailbox
<1> DEFINE posted == [a \in Address |-> MessagesTo(message_list[1 - which_buffer], a)]
           held == [a \in Address |-> MessagesTo(message_list[which_buffer], a)]
           nothing == [a \in Address |-> <<>>]
<1>1. Init => Mailbox!Init
  BY EmptyList DEF Init, Mailbox!Init, Mailbox!NoMail
<1>2. ASSUME IInv, [Next]_vars PROVE Mailbox!Next \/ UNCHANGED <<posted, held, rejected>>
  <2>1. /\ message_list \in [{0, 1} -> Seq(Entry)] /\ which_buffer \in {0, 1}
        /\ 1 - which_buffer \in {0, 1} /\ 1 - (1 - which_buffer) = which_buffer
        /\ which_buffer # 1 - which_buffer
    BY <1>2, BufferFacts DEF IInv, TypeOK
  <2>2. posted = Boxes(WriteList) /\ held = Boxes(ReadList)
    BY DEF Boxes, ReadList, WriteList
  <2>3. posted' = Boxes(WriteList') /\ held' = Boxes(ReadList')
    BY DEF Boxes, ReadList, WriteList
  <2>4. Boxes(<<>>) = nothing /\ Mailbox!NoMail = nothing
    BY EmptyList DEF Boxes, Mailbox!NoMail
  <2>5. ASSUME UNCHANGED <<mailVars, rejected>> PROVE UNCHANGED <<posted, held, rejected>>
    <3>1. message_list' = message_list /\ which_buffer' = which_buffer /\ rejected' = rejected
      BY <2>5
    <3>2. WriteList' = WriteList /\ ReadList' = ReadList
      BY <3>1 DEF WriteList, ReadList
    <3>3. posted' = posted /\ held' = held
      BY <2>2, <2>3, <3>2
    <3> QED BY <3>1, <3>3
  <2>6. CASE UNCHANGED vars \/ NextGroup \/ (\E p \in Pauser : Pause(p) \/ Unpause(p))
             \/ (\E u \in Actor : RunActor(u))
    <3>1. UNCHANGED <<mailVars, rejected>>
      BY <2>6 DEF NextGroup, Pause, Unpause, RunActor
    <3> QED BY <2>5, <3>1
  <2>7. CASE Daemon
    <3>1. CASE GV_PauseLevel # {}
      BY <2>5, <2>7, <3>1 DEF Daemon
    <3>2. CASE GV_PauseLevel = {}
      <4>1. ReadList' = WriteList /\ WriteList' = <<>> /\ rejected' = rejected
        BY <2>1, <2>7, <3>2 DEF Daemon, GV_ClearMessageSystem, ReadList, WriteList
      <4>2. Mailbox!Turn
        BY <2>2, <2>3, <2>4, <4>1 DEF Mailbox!Turn
      <4> QED BY <4>2 DEF Mailbox!Next
    <3> QED BY <3>1, <3>2
  <2>8. CASE ResetSystem
    <3>1. ReadList' = <<>> /\ WriteList' = <<>> /\ rejected' = rejected
      BY <2>8 DEF ResetSystem, GV_InitMessageSystem, ReadList, WriteList
    <3>2. Mailbox!Reset
      BY <2>2, <2>3, <2>4, <3>1 DEF Mailbox!Reset
    <3> QED BY <3>2 DEF Mailbox!Next
  <2>9. ASSUME NEW a \in Address, SendMessage(a) PROVE Mailbox!Next
    <3>0. /\ sent' \in Body
          /\ Len(WriteList) \in Nat /\ Len(WriteList) <= MAX_MESSAGES
          /\ WriteList \in Seq(Entry) /\ Stacked(WriteList)
      <4>1. sent' \in Body
        BY <1>2, <2>9, MessageAssumption DEF SendMessage, GV_SendMessage, IInv, TypeOK, Body
      <4>2. WriteList \in Seq(Entry) /\ Stacked(WriteList) /\ Len(WriteList) \in Nat
        BY <1>2, BufferFacts, EntryFacts
      <4> QED BY <1>2, <2>1, <4>1, <4>2 DEF IInv, TypeOK, WriteList
    <3>1. Mailbox!Count(posted) = Len(WriteList)
      <4>1. Mailbox!Count(Boxes(WriteList)) = Cardinality(Pairs(WriteList))
        BY Zenon DEF Mailbox!Count, Pairs, Mailbox!Cardinality, Cardinality
      <4> QED BY <2>2, <3>0, <4>1, PairsCount
    <3>2. ReadList' = ReadList
      BY <2>1, <2>9 DEF SendMessage, GV_SendMessage, ReadList
    <3>3. CASE Len(WriteList) >= MAX_MESSAGES /\ rejected' = TRUE /\ message_list' = message_list
      <4>1. Len(WriteList) = MAX_MESSAGES
        BY <3>0, <3>3, MessageAssumption
      <4>2. WriteList' = WriteList
        BY <2>9, <3>3 DEF SendMessage, WriteList
      <4>3. Mailbox!Reject
        BY <2>2, <2>3, <3>1, <3>2, <3>3, <4>1, <4>2 DEF Mailbox!Reject
      <4> QED BY <4>3 DEF Mailbox!Next
    <3>4. CASE /\ Len(WriteList) < MAX_MESSAGES /\ rejected' = FALSE
               /\ message_list' = [message_list EXCEPT ![1 - which_buffer] = Inserted(@, a, sent')]
      <4>1. WriteList' = Inserted(WriteList, a, sent')
        BY <2>1, <2>9, <3>4 DEF SendMessage, WriteList
      <4>2. MessagesTo(WriteList', a) = <<sent'>> \o MessagesTo(WriteList, a)
        BY <3>0, <3>4, <4>1, InsertedOwn
      <4>3. \A c \in Address : c # a => MessagesTo(WriteList', c) = MessagesTo(WriteList, c)
        BY <3>0, <3>4, <4>1, InsertedOther
      <4>4. posted' = [posted EXCEPT ![a] = <<sent'>> \o @]
        <5>1. \A c \in Address :
                Boxes(WriteList')[c] = IF c = a THEN <<sent'>> \o Boxes(WriteList)[c]
                                       ELSE Boxes(WriteList)[c]
          BY <4>2, <4>3 DEF Boxes
        <5>2. Boxes(WriteList') = [c \in Address |-> Boxes(WriteList')[c]]
              /\ Boxes(WriteList) = [c \in Address |-> Boxes(WriteList)[c]]
          BY DEF Boxes
        <5> HIDE DEF Boxes
        <5>3. Boxes(WriteList') = [Boxes(WriteList) EXCEPT ![a] = <<sent'>> \o @]
          BY <5>1, <5>2, Zenon
        <5> QED BY <2>2, <2>3, <5>3
      <4>5. Mailbox!Post(a, sent')
        BY <2>2, <2>3, <3>1, <3>2, <3>4, <4>4 DEF Mailbox!Post
      <4> QED BY <3>0, <4>5 DEF Mailbox!Next
    <3> QED BY <2>9, <3>3, <3>4 DEF SendMessage, GV_SendMessage, WriteList
  <2> QED BY <1>2, <2>6, <2>7, <2>8, <2>9 DEF Next
<1>3. IInv /\ [Next]_vars => [Mailbox!Next]_<<posted, held, rejected>>
  BY <1>2
<1> QED BY <1>1, <1>3, Invariant, PTL DEF Spec, IsMailbox, Mailbox!Spec, Mailbox!mail
=============================================================================
