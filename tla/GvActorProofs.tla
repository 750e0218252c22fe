---------------------------- MODULE GvActorProofs ----------------------------
(***************************************************************************)
(* Proofs about GvActor, for any number of lists and actors: each step    *)
(* keeps the invariant of GvActorInv, and with it every safety property.  *)
(* Nothing is assumed but what GvActor assumes of its constants.          *)
(***************************************************************************)
EXTENDS GvActorInv, Integers, WellFoundedInduction, TLAPS

-----------------------------------------------------------------------------
(* Nodes *)

LEMMA NodeFacts ==
  /\ \A l \in Level : /\ Start(l) \in Node /\ End(l) \in Node
                      /\ Start(l) \notin Actor /\ End(l) \notin Actor
                      /\ Start(l) \in Sentinel /\ End(l) \in Sentinel
                      /\ LevelOf(Start(l)) = l /\ LevelOf(End(l)) = l
                      /\ Linked(Start(l)) /\ Linked(End(l))
                      /\ IsStart(Start(l)) /\ ~IsEnd(Start(l))
                      /\ IsEnd(End(l)) /\ ~IsStart(End(l))
  /\ \A l, m \in Level : /\ Start(l) # End(m)
                         /\ Start(l) = Start(m) => l = m
                         /\ End(l) = End(m) => l = m
  /\ \A n \in Node : n # NULL /\ (n \in Actor \/ IsStart(n) \/ IsEnd(n))
  /\ \A a \in Actor : /\ a \in Node /\ a \notin Sentinel /\ ~IsStart(a) /\ ~IsEnd(a)
                      /\ LevelOf(a) = level[a] /\ (Linked(a) <=> Listed(a))
  /\ Level \subseteq Nat
<1>1. \A l \in Level : /\ Start(l) \in Sentinel /\ End(l) \in Sentinel
                       /\ Start(l)[2] = l /\ End(l)[2] = l
                       /\ Start(l)[1] = "start" /\ End(l)[1] = "end"
  BY DEF Sentinel, Start, End
<1>2. \A l \in Level : Start(l) \notin Actor /\ End(l) \notin Actor
  BY <1>1, NodeAssumption
<1>3. \A l, m \in Level : /\ Start(l) # End(m)
                          /\ Start(l) = Start(m) => l = m
                          /\ End(l) = End(m) => l = m
  BY <1>1
<1>4. \A l \in Level : LevelOf(Start(l)) = l /\ LevelOf(End(l)) = l
  BY <1>1, <1>2 DEF LevelOf
<1>5. \A l \in Level : /\ IsStart(Start(l)) /\ ~IsEnd(Start(l))
                       /\ IsEnd(End(l)) /\ ~IsStart(End(l))
  BY <1>3 DEF IsStart, IsEnd
<1>6. \A n \in Node : n # NULL /\ (n \in Actor \/ IsStart(n) \/ IsEnd(n))
  BY NodeAssumption DEF Node, Sentinel, IsStart, IsEnd
<1>7. \A a \in Actor : a \notin Sentinel /\ ~IsStart(a) /\ ~IsEnd(a)
  BY <1>1, NodeAssumption DEF IsStart, IsEnd
<1>8. \A a \in Actor : a \in Node /\ LevelOf(a) = level[a] /\ (Linked(a) <=> Listed(a))
  BY <1>7 DEF Node, LevelOf, Linked
<1>9. Level \subseteq Nat
  BY ActorAssumption DEF Level
<1> QED BY <1>1, <1>2, <1>3, <1>4, <1>5, <1>6, <1>7, <1>8, <1>9 DEF Node, Linked

\* What a step may change of the nodes: the links and the list of an actor.
LEMMA LevelFacts ==
  ASSUME TypeOK
  PROVE  \A n \in Node : LevelOf(n) \in Level /\ (IsEnd(n) => n = End(LevelOf(n)))
                         /\ (IsStart(n) => n = Start(LevelOf(n)))
<1>1. \A n \in Actor : LevelOf(n) \in Level
  BY NodeFacts DEF TypeOK
<1>2. \A n \in Node : IsEnd(n) => LevelOf(n) \in Level /\ n = End(LevelOf(n))
  BY NodeFacts DEF IsEnd
<1>3. \A n \in Node : IsStart(n) => LevelOf(n) \in Level /\ n = Start(LevelOf(n))
  BY NodeFacts DEF IsStart
<1> QED BY <1>1, <1>2, <1>3, NodeFacts

-----------------------------------------------------------------------------
(* Links *)

LEMMA UnlinkKeeps ==
  ASSUME NEW pos \in [Node -> Nat], TypeOK, Loose, Ordered(pos), Links(pos),
         NEW a \in Actor, Listed(a), Unlink(a), level' = level
  PROVE  /\ Loose' /\ Ordered(pos)' /\ Links(pos)'
         /\ \A n \in Node : Linked(n)' <=> Linked(n) /\ n # a
         /\ next' \in [Node -> Node \cup {NULL}] /\ prev' \in [Node -> Node \cup {NULL}]
<1> DEFINE p == prev[a]
           q == next[a]
<1>1. /\ next \in [Node -> Node \cup {NULL}] /\ prev \in [Node -> Node \cup {NULL}]
      /\ level \in [Actor -> Level]
  BY DEF TypeOK
<1>2. a \in Node /\ Linked(a) /\ ~IsEnd(a) /\ ~IsStart(a)
  BY NodeFacts
<1>3. /\ p \in Node /\ Together(a, p) /\ next[p] = a
      /\ q \in Node /\ Together(a, q) /\ prev[q] = a /\ pos[a] < pos[q]
  BY <1>2 DEF Links
<1>4. ~IsEnd(p) /\ Linked(p) /\ Linked(q)
  BY <1>2, <1>3, NodeFacts DEF Loose, IsEnd, Together
<1>5. pos[p] < pos[a] /\ prev[a] = p
  BY <1>3, <1>4 DEF Links
<1>6. p # a /\ q # a /\ p # q
  BY <1>2, <1>3, <1>5
<1>7. next' = [next EXCEPT ![p] = q, ![a] = NULL] /\ prev' = [prev EXCEPT ![q] = p, ![a] = NULL]
  BY DEF Unlink
<1> HIDE DEF p, q
<1>8. /\ next' \in [Node -> Node \cup {NULL}] /\ prev' \in [Node -> Node \cup {NULL}]
      /\ next'[a] = NULL /\ prev'[a] = NULL /\ next'[p] = q /\ prev'[q] = p
      /\ \A n \in Node : n # p /\ n # a => next'[n] = next[n]
      /\ \A n \in Node : n # q /\ n # a => prev'[n] = prev[n]
  BY <1>1, <1>2, <1>3, <1>6, <1>7
<1>9. \A n \in Node : LevelOf(n)' = LevelOf(n)
  BY DEF LevelOf
<1>10. \A n \in Node : Linked(n)' <=> Linked(n) /\ n # a
  <2>1. \A n \in Actor : n # a => (next'[n] # NULL <=> next[n] # NULL)
    BY <1>2, <1>3, <1>8, NodeFacts
  <2>2. ASSUME NEW n \in Actor PROVE Listed(n)' <=> Listed(n) /\ n # a
    BY <1>8, <2>1 DEF Listed
  <2> QED BY <2>2, NodeFacts DEF Linked, Listed, Node
<1>11. Loose'
  <2>1. ASSUME NEW l \in Level PROVE next'[End(l)] = NULL
    <3>1. next[End(l)] = NULL /\ End(l) \in Node /\ End(l) # a
      BY NodeFacts DEF Loose
    <3>2. End(l) # p
      BY <1>3, <3>1, <1>2, NodeFacts
    <3> QED BY <1>8, <3>1, <3>2
  <2>2. ASSUME NEW l \in Level PROVE prev'[Start(l)] = NULL
    <3>1. prev[Start(l)] = NULL /\ Start(l) \in Node /\ Start(l) # a
      BY NodeFacts DEF Loose
    <3>2. Start(l) # q
      BY <1>3, <3>1, <1>2, NodeFacts
    <3> QED BY <1>8, <3>1, <3>2
  <2>3. ASSUME NEW b \in Actor, ~Listed(b)' PROVE prev'[b] = NULL
    <3>1. CASE b = a
      BY <1>8, <3>1
    <3>2. CASE b # a
      <4>1. ~Linked(b)
        BY <1>10, <2>3, <3>2, NodeFacts DEF Linked
      <4>2. b # q /\ ~Listed(b) /\ b \in Node
        BY <1>4, <4>1, NodeFacts
      <4> QED BY <1>8, <3>2, <4>2 DEF Loose
    <3> QED BY <3>1, <3>2
  <2> QED BY <2>1, <2>2, <2>3 DEF Loose
<1>12. ASSUME NEW n \in Node, NEW m \in Node PROVE Together(n, m)' <=> Together(n, m) /\ n # a /\ m # a
  BY <1>9, <1>10 DEF Together
<1>13. Ordered(pos)'
  <2>1. \A n, m \in Node : Together(n, m)' /\ pos[n] = pos[m] => n = m
    BY <1>12 DEF Ordered
  <2>2. \A n \in Node : Linked(n)' => /\ pos[Start(LevelOf(n)')] <= pos[n]
                                      /\ pos[n] <= pos[End(LevelOf(n)')]
    BY <1>9, <1>10 DEF Ordered
  <2>3. ASSUME NEW n \in Node, NEW m \in Node, Together(n, m)', pos[n] < pos[m]
        PROVE  pos[next'[n]] <= pos[m]
    <3>1. Together(n, m) /\ n # a /\ m # a
      BY <1>12, <2>3
    <3>2. pos[next[n]] <= pos[m]
      BY <2>3, <3>1 DEF Ordered
    <3>3. CASE n = p
      <4>1. Together(a, m) /\ pos[a] <= pos[m]
        BY <1>3, <3>1, <3>2, <3>3 DEF Together
      <4>2. pos[a] # pos[m]
        BY <1>2, <3>1, <4>1 DEF Ordered
      <4>3. pos[a] < pos[m]
        BY <1>2, <4>1, <4>2
      <4> QED BY <1>2, <1>8, <3>3, <4>1, <4>3 DEF Ordered, q
    <3>4. CASE n # p
      BY <1>8, <3>1, <3>2, <3>4
    <3> QED BY <3>3, <3>4
  <2> QED BY <2>1, <2>2, <2>3 DEF Ordered
<1>14. ASSUME NEW n \in Node, Linked(n)', ~IsEnd(n)
       PROVE  \E m \in Node : m = next'[n] /\ Together(n, m)' /\ prev'[m] = n /\ pos[n] < pos[m]
  <2>1. Linked(n) /\ n # a
    BY <1>10, <1>14
  <2>2. CASE n = p
    <3>1. Together(p, q)
      BY <1>3 DEF Together
    <3>2. pos[p] < pos[q]
      BY <1>2, <1>3, <1>5
    <3> QED BY <1>3, <1>6, <1>8, <1>12, <2>2, <3>1, <3>2
  <2>3. CASE n # p
    <3>1. next[n] \in Node /\ Together(n, next[n]) /\ prev[next[n]] = n /\ pos[n] < pos[next[n]]
      BY <1>14, <2>1 DEF Links
    <3>2. next[n] # a /\ next[n] # q
      BY <1>3, <1>5, <2>1, <2>3, <3>1
    <3> QED BY <1>8, <1>12, <2>1, <2>3, <3>1, <3>2
  <2> QED BY <2>2, <2>3
<1>15. ASSUME NEW n \in Node, Linked(n)', ~IsStart(n)
       PROVE  \E m \in Node : m = prev'[n] /\ Together(n, m)' /\ next'[m] = n
  <2>1. Linked(n) /\ n # a
    BY <1>10, <1>15
  <2>2. CASE n = q
    <3>1. Together(q, p)
      BY <1>3 DEF Together
    <3> QED BY <1>3, <1>6, <1>8, <1>12, <2>2, <3>1
  <2>3. CASE n # q
    <3>1. prev[n] \in Node /\ Together(n, prev[n]) /\ next[prev[n]] = n
      BY <1>15, <2>1 DEF Links
    <3>2. prev[n] # a /\ prev[n] # p
      <4>1. next[a] = q /\ next[p] = a
        BY <1>3 DEF q
      <4> QED BY <4>1, <2>1, <2>3, <3>1
    <3> QED BY <1>8, <1>12, <2>1, <2>3, <3>1, <3>2
  <2> QED BY <2>2, <2>3
<1>16. Links(pos)'
  BY <1>14, <1>15 DEF Links, Together, Linked, LevelOf, Listed
<1> QED BY <1>8, <1>10, <1>11, <1>13, <1>16

\* The place behind all others is the end's; the new actor takes it and the end moves on.
LEMMA LinkKeeps ==
  ASSUME NEW pos \in [Node -> Nat], TypeOK, Loose, Ordered(pos), Links(pos),
         NEW l \in Level, NEW a \in Actor, ~Listed(a), Link(l, a),
         level' = [level EXCEPT ![a] = l],
         NEW pos2, pos2 = [pos EXCEPT ![a] = pos[End(l)], ![End(l)] = pos[End(l)] + 1]
  PROVE  /\ pos2 \in [Node -> Nat]
         /\ Loose' /\ Ordered(pos2)' /\ Links(pos2)'
         /\ \A n \in Node : Linked(n)' <=> Linked(n) \/ n = a
         /\ next' \in [Node -> Node \cup {NULL}] /\ prev' \in [Node -> Node \cup {NULL}]
<1> DEFINE e == End(l)
           p == prev[e]
<1>1. /\ next \in [Node -> Node \cup {NULL}] /\ prev \in [Node -> Node \cup {NULL}]
      /\ level \in [Actor -> Level]
  BY DEF TypeOK
<1>2. /\ a \in Node /\ ~Linked(a) /\ ~IsEnd(a) /\ ~IsStart(a)
      /\ e \in Node /\ Linked(e) /\ ~IsStart(e) /\ IsEnd(e) /\ LevelOf(e) = l /\ e # a
  BY NodeFacts
<1>3. p \in Node /\ Together(e, p) /\ next[p] = e /\ Linked(p) /\ LevelOf(p) = l
  BY <1>2 DEF Links, Together
<1>4. ~IsEnd(p) /\ p # e /\ p # a
  BY <1>2, <1>3, NodeFacts DEF Loose, IsEnd
<1>5. pos[p] < pos[e]
  BY <1>3, <1>4 DEF Links
<1>6. next' = [next EXCEPT ![p] = a, ![a] = e] /\ prev' = [prev EXCEPT ![e] = a, ![a] = p]
  BY DEF Link
<1> HIDE DEF e, p
<1>7. /\ next' \in [Node -> Node \cup {NULL}] /\ prev' \in [Node -> Node \cup {NULL}]
      /\ next'[p] = a /\ next'[a] = e /\ prev'[e] = a /\ prev'[a] = p
      /\ \A n \in Node : n # p /\ n # a => next'[n] = next[n]
      /\ \A n \in Node : n # e /\ n # a => prev'[n] = prev[n]
  BY <1>1, <1>2, <1>3, <1>4, <1>6
<1>8. /\ pos2 \in [Node -> Nat] /\ pos2[a] = pos[e] /\ pos2[e] = pos[e] + 1
      /\ \A n \in Node : n # a /\ n # e => pos2[n] = pos[n]
  BY <1>2 DEF e
<1>9. \A n \in Node : n # a => LevelOf(n)' = LevelOf(n)
  BY <1>1, <1>2 DEF LevelOf
<1>10. LevelOf(a)' = l
  BY <1>1 DEF LevelOf
<1>11. \A n \in Node : Linked(n)' <=> Linked(n) \/ n = a
  <2>1. \A n \in Actor : n # a => (next'[n] # NULL <=> next[n] # NULL)
    BY <1>2, <1>3, <1>7, NodeFacts
  <2>2. next'[a] # NULL
    BY <1>2, <1>7, NodeFacts
  <2>3. ASSUME NEW n \in Actor PROVE Listed(n)' <=> Listed(n) \/ n = a
    BY <2>1, <2>2 DEF Listed
  <2> QED BY <2>3, NodeFacts DEF Linked, Listed, Node
<1>12. Loose'
  <2>1. ASSUME NEW m \in Level PROVE next'[End(m)] = NULL
    <3>1. next[End(m)] = NULL /\ End(m) \in Node /\ End(m) # a
      BY NodeFacts DEF Loose
    <3>2. End(m) # p
      BY <1>4, NodeFacts
    <3> QED BY <1>7, <3>1, <3>2
  <2>2. ASSUME NEW m \in Level PROVE prev'[Start(m)] = NULL
    <3>1. prev[Start(m)] = NULL /\ Start(m) \in Node /\ Start(m) # a
      BY NodeFacts DEF Loose
    <3>2. Start(m) # e
      BY <1>2, NodeFacts
    <3> QED BY <1>7, <3>1, <3>2
  <2>3. ASSUME NEW b \in Actor, ~Listed(b)' PROVE prev'[b] = NULL
    <3>1. b # a /\ ~Linked(b) /\ b \in Node
      BY <1>11, <2>3, NodeFacts DEF Linked
    <3>2. b # e /\ ~Listed(b)
      BY <1>2, <3>1, NodeFacts
    <3> QED BY <1>7, <3>1, <3>2 DEF Loose
  <2> QED BY <2>1, <2>2, <2>3 DEF Loose
<1>13. ASSUME NEW n \in Node, NEW m \in Node
       PROVE  /\ n # a /\ m # a => (Together(n, m)' <=> Together(n, m))
              /\ n # a => (Together(n, a)' <=> Linked(n) /\ LevelOf(n) = l)
              /\ m # a => (Together(a, m)' <=> Linked(m) /\ LevelOf(m) = l)
  BY <1>2, <1>9, <1>10, <1>11 DEF Together
<1>14. ASSUME NEW n \in Node, n # e, Linked(n), LevelOf(n) = l PROVE pos[n] < pos[e]
  <2>1. pos[n] <= pos[e]
    BY <1>14 DEF Ordered, e
  <2>2. pos[n] # pos[e]
    BY <1>2, <1>14 DEF Ordered, Together
  <2> QED BY <1>2, <2>1, <2>2
<1>15. ASSUME NEW n \in Node, Linked(n), LevelOf(n) # l PROVE n # e /\ n # a /\ n # p
  BY <1>2, <1>3, <1>15
<1>16. Ordered(pos2)'
  <2>1. ASSUME NEW n \in Node, NEW m \in Node, Together(n, m)', pos2[n] = pos2[m] PROVE n = m
    <3>1. CASE n = a
      <4>1. m # a => Linked(m) /\ LevelOf(m) = l
        BY <1>13, <2>1, <3>1
      <4>2. m # a => m # e
        BY <1>2, <1>8, <2>1, <3>1
      <4> QED BY <1>2, <1>8, <1>14, <2>1, <3>1, <4>1, <4>2
    <3>2. CASE m = a
      <4>1. n # a => Linked(n) /\ LevelOf(n) = l
        BY <1>13, <2>1, <3>2
      <4>2. n # a => n # e
        BY <1>2, <1>8, <2>1, <3>2
      <4> QED BY <1>2, <1>8, <1>14, <2>1, <3>2, <4>1, <4>2
    <3>3. CASE n # a /\ m # a
      <4>1. Together(n, m)
        BY <1>13, <2>1, <3>3
      <4>2. CASE n # e /\ m # e
        BY <1>8, <2>1, <3>3, <4>1, <4>2 DEF Ordered
      <4>3. CASE n = e \/ m = e
        BY <1>2, <1>8, <1>14, <2>1, <3>3, <4>1, <4>3 DEF Together
      <4> QED BY <4>2, <4>3
    <3> QED BY <3>1, <3>2, <3>3
  <2>2. ASSUME NEW n \in Node, Linked(n)'
        PROVE  pos2[Start(LevelOf(n)')] <= pos2[n] /\ pos2[n] <= pos2[End(LevelOf(n)')]
    <3>1. Start(l) \in Node /\ Start(l) # a /\ Start(l) # e /\ Linked(Start(l)) /\ LevelOf(Start(l)) = l
      BY <1>2, NodeFacts DEF e
    <3>2. pos[Start(l)] < pos[e]
      BY <1>14, <3>1
    <3>3. CASE n = a
      BY <1>2, <1>8, <1>10, <3>1, <3>2, <3>3 DEF e
    <3>4. CASE n # a /\ LevelOf(n) = l
      <4>1. Linked(n) /\ LevelOf(n)' = l /\ pos[Start(l)] <= pos[n] /\ pos[n] <= pos[e]
        BY <1>9, <1>11, <2>2, <3>4 DEF Ordered, e
      <4> QED BY <1>2, <1>8, <3>1, <3>4, <4>1 DEF e
    <3>5. CASE n # a /\ LevelOf(n) # l
      <4> DEFINE k == LevelOf(n)
      <4>1. k \in Level /\ Linked(n) /\ LevelOf(n)' = k /\ k # l
        BY <1>9, <1>11, <2>2, <3>5, LevelFacts
      <4>2. Start(k) \in Node /\ End(k) \in Node /\ Start(k) # a /\ End(k) # a /\ Start(k) # e /\ End(k) # e
        BY <1>2, <4>1, NodeFacts DEF e
      <4>3. pos[Start(k)] <= pos[n] /\ pos[n] <= pos[End(k)]
        BY <4>1 DEF Ordered
      <4> QED BY <1>8, <1>15, <3>5, <4>1, <4>2, <4>3
    <3> QED BY <3>3, <3>4, <3>5
  <2>3. ASSUME NEW n \in Node, NEW m \in Node, Together(n, m)', pos2[n] < pos2[m]
        PROVE  pos2[next'[n]] <= pos2[m]
    <3>1. CASE n = a
      <4>1. m # a
        BY <1>2, <1>8, <2>3, <3>1
      <4>2. Linked(m) /\ LevelOf(m) = l
        BY <1>13, <2>3, <3>1, <4>1
      <4>3. m = e
        BY <1>2, <1>8, <1>14, <2>3, <3>1, <4>1, <4>2
      <4> QED BY <1>2, <1>7, <1>8, <3>1, <4>3
    <3>2. CASE n # a /\ m = a
      <4>1. Linked(n) /\ LevelOf(n) = l
        BY <1>13, <2>3, <3>2
      <4>2. n # e
        BY <1>2, <1>8, <2>3, <3>2
      <4>3. CASE n = p
        BY <1>2, <1>7, <1>8, <3>2, <4>3
      <4>4. CASE n # p
        <5>1. next'[n] = next[n]
          BY <1>7, <3>2, <4>4
        <5>2. ~IsEnd(n)
          BY <4>1, <4>2, NodeFacts DEF IsEnd, e
        <5>3. next[n] \in Node /\ Linked(next[n]) /\ LevelOf(next[n]) = l /\ prev[next[n]] = n
          BY <4>1, <5>2 DEF Links, Together
        <5>4. next[n] # e /\ next[n] # a
          BY <1>2, <4>4, <5>3 DEF p
        <5>5. pos[next[n]] < pos[e]
          BY <1>14, <5>3, <5>4
        <5> QED BY <1>2, <1>8, <3>2, <5>1, <5>3, <5>4, <5>5
      <4> QED BY <4>3, <4>4
    <3>3. CASE n # a /\ m # a
      <4>1. Together(n, m) /\ Linked(n) /\ Linked(m) /\ LevelOf(n) = LevelOf(m)
        BY <1>13, <2>3, <3>3 DEF Together
      <4>2. n # e
        <5> SUFFICES ASSUME n = e PROVE FALSE
          OBVIOUS
        <5>1. m # e /\ pos[m] < pos[e]
          BY <1>2, <1>14, <2>3, <4>1
        <5> QED BY <1>2, <1>8, <2>3, <3>3, <5>1
      <4>3. pos[n] < pos[m]
        <5>1. CASE m = e
          BY <1>2, <1>14, <4>1, <4>2, <5>1
        <5>2. CASE m # e
          BY <1>8, <2>3, <3>3, <4>2, <5>2
        <5> QED BY <5>1, <5>2
      <4>4. pos[next[n]] <= pos[m]
        BY <4>1, <4>3 DEF Ordered
      <4>5. CASE n = p
        <5>1. m = e
          BY <1>2, <1>3, <1>14, <4>1, <4>4, <4>5
        <5> QED BY <1>2, <1>7, <1>8, <4>5, <5>1
      <4>6. CASE n # p
        <5>1. next'[n] = next[n]
          BY <1>7, <3>3, <4>6
        <5>2. ~IsEnd(n)
          <6> SUFFICES ASSUME IsEnd(n) PROVE FALSE
            OBVIOUS
          <6>1. n = End(LevelOf(n)) /\ pos[m] <= pos[End(LevelOf(m))]
            BY <4>1, LevelFacts DEF Ordered
          <6> QED BY <4>1, <4>3, <6>1
        <5>3. next[n] \in Node /\ Linked(next[n]) /\ prev[next[n]] = n
          BY <4>1, <5>2 DEF Links, Together
        <5>4. next[n] # e /\ next[n] # a
          BY <1>2, <4>6, <5>3 DEF p
        <5>5. pos2[next[n]] = pos[next[n]]
          BY <1>8, <5>3, <5>4
        <5>6. pos[m] <= pos2[m]
          BY <1>2, <1>8, <3>3
        <5> QED BY <1>8, <4>4, <5>1, <5>3, <5>5, <5>6
      <4> QED BY <4>5, <4>6
    <3> QED BY <3>1, <3>2, <3>3
  <2> QED BY <2>1, <2>2, <2>3 DEF Ordered
<1>17. ASSUME NEW n \in Node, Linked(n)', ~IsEnd(n)
       PROVE  \E m \in Node : m = next'[n] /\ Together(n, m)' /\ prev'[m] = n /\ pos2[n] < pos2[m]
  <2>1. CASE n = a
    BY <1>2, <1>7, <1>8, <1>13, <2>1
  <2>2. CASE n = p
    BY <1>2, <1>3, <1>4, <1>5, <1>7, <1>8, <1>13, <2>2
  <2>3. CASE n # a /\ n # p
    <3>1. Linked(n) /\ next'[n] = next[n]
      BY <1>7, <1>11, <1>17, <2>3
    <3>2. next[n] \in Node /\ Together(n, next[n]) /\ prev[next[n]] = n /\ pos[n] < pos[next[n]]
          /\ Linked(next[n])
      BY <1>17, <3>1 DEF Links, Together
    <3>3. next[n] # e /\ next[n] # a
      BY <1>2, <2>3, <3>2 DEF p
    <3>4. n # e
      BY <1>2, <1>17
    <3> QED BY <1>7, <1>8, <1>13, <2>3, <3>1, <3>2, <3>3, <3>4
  <2> QED BY <2>1, <2>2, <2>3
<1>18. ASSUME NEW n \in Node, Linked(n)', ~IsStart(n)
       PROVE  \E m \in Node : m = prev'[n] /\ Together(n, m)' /\ next'[m] = n
  <2>1. CASE n = a
    BY <1>2, <1>3, <1>4, <1>7, <1>13, <2>1
  <2>2. CASE n = e
    BY <1>2, <1>7, <1>13, <2>2
  <2>3. CASE n # a /\ n # e
    <3>1. Linked(n) /\ prev'[n] = prev[n]
      BY <1>7, <1>11, <1>18, <2>3
    <3>2. prev[n] \in Node /\ Together(n, prev[n]) /\ next[prev[n]] = n /\ Linked(prev[n])
      BY <1>18, <3>1 DEF Links, Together
    <3>3. prev[n] # p /\ prev[n] # a
      BY <1>2, <1>3, <2>3, <3>2
    <3> QED BY <1>7, <1>13, <2>3, <3>1, <3>2, <3>3
  <2> QED BY <2>1, <2>2, <2>3
<1>19. Links(pos2)'
  BY <1>17, <1>18 DEF Links, Together, Linked, LevelOf, Listed
<1> QED BY <1>7, <1>8, <1>11, <1>12, <1>16, <1>19

-----------------------------------------------------------------------------
(* What a step leaves alone *)

LEMMA SameLinks ==
  ASSUME UNCHANGED linkVars
  PROVE  /\ \A n : (Linked(n)' <=> Linked(n)) /\ LevelOf(n)' = LevelOf(n)
         /\ \A a : Listed(a)' <=> Listed(a)
         /\ \A n, m : Together(n, m)' <=> Together(n, m)
         /\ Loose' <=> Loose
         /\ \A pos : /\ Ordered(pos)' <=> Ordered(pos)
                     /\ Links(pos)' <=> Links(pos)
                     /\ list' = list => \A n : From(pos, n)' = From(pos, n)
<1>1. next' = next /\ prev' = prev /\ level' = level
  BY DEF linkVars
<1>2. \A a : Listed(a)' <=> Listed(a)
  BY <1>1 DEF Listed
<1>3. \A n : (Linked(n)' <=> Linked(n)) /\ LevelOf(n)' = LevelOf(n)
  BY <1>1 DEF Linked, Listed, LevelOf
<1>4. \A n, m : Together(n, m)' <=> Together(n, m)
  BY <1>1 DEF Together, Linked, Listed, LevelOf
<1>5. Loose' <=> Loose
  BY <1>1 DEF Loose, Listed
<1>6. ASSUME NEW pos PROVE Ordered(pos)' <=> Ordered(pos)
  BY <1>1 DEF Ordered, Together, Linked, Listed, LevelOf
<1>7. ASSUME NEW pos PROVE Links(pos)' <=> Links(pos)
  BY <1>1 DEF Links, Together, Linked, Listed, LevelOf
<1>8. ASSUME NEW pos, list' = list, NEW n PROVE From(pos, n)' = From(pos, n)
  BY <1>1, <1>8 DEF From, Listed
<1> QED BY <1>2, <1>3, <1>4, <1>5, <1>6, <1>7, <1>8

\* The actors from a node on: none from the end, all from the start, and the node
\* itself with those from the next one on.
LEMMA FromFacts ==
  ASSUME TypeOK, Loose, NEW pos \in [Node -> Nat], Ordered(pos), Links(pos),
         NEW n \in Node, Linked(n), LevelOf(n) = list
  PROVE  /\ next[n] = NULL => From(pos, n) \subseteq {n} /\ From(pos, n) = {}
         /\ next[n] # NULL => /\ next[n] \in Node /\ Linked(next[n]) /\ LevelOf(next[n]) = list
                              /\ next[n] # n
                              /\ From(pos, next[n]) = From(pos, n) \ {n}
         /\ IsStart(n) => From(pos, n) = {a \in Actor : Listed(a) /\ level[a] = list}
         /\ n \in Actor => n \in From(pos, n)
<1>1. /\ pos \in [Node -> Nat] /\ pos[n] \in Nat
      /\ \A a \in Actor : a \in Node /\ pos[a] \in Nat /\ ~IsEnd(a)
      /\ \A a \in Actor : Listed(a) /\ level[a] = list => Together(n, a) /\ Together(a, n) /\ Linked(a) /\ LevelOf(a) = list
  BY NodeFacts DEF Together
<1>2. CASE next[n] = NULL
  <2>1. IsEnd(n)
    BY <1>2, NodeFacts DEF Links
  <2>2. n = End(list)
    BY <2>1, LevelFacts
  <2>3. ASSUME NEW a \in Actor, Listed(a), level[a] = list, pos[n] <= pos[a] PROVE FALSE
    <3>1. pos[a] <= pos[n]
      BY <1>1, <2>2, <2>3 DEF Ordered
    <3>2. pos[a] = pos[n]
      BY <1>1, <2>3, <3>1
    <3>3. a = n
      BY <1>1, <2>3, <3>2 DEF Ordered
    <3> QED BY <1>1, <2>1, <3>3
  <2>4. From(pos, n) = {}
    BY <2>3 DEF From
  <2>5. ~IsStart(n) /\ n \notin Actor
    BY <2>1, NodeFacts DEF IsEnd
  <2> QED BY <1>2, <2>4, <2>5
<1>3. CASE next[n] # NULL
  <2>1. ~IsEnd(n)
    BY <1>3 DEF Loose, IsEnd
  <2>2. next[n] \in Node /\ Together(n, next[n]) /\ pos[n] < pos[next[n]] /\ pos[next[n]] \in Nat
    BY <1>1, <2>1 DEF Links
  <2>3. ASSUME NEW a \in Actor, Listed(a), level[a] = list
        PROVE  pos[next[n]] <= pos[a] <=> pos[n] <= pos[a] /\ a # n
    <3>1. CASE pos[next[n]] <= pos[a]
      BY <1>1, <2>2, <3>1
    <3>2. CASE pos[n] <= pos[a] /\ a # n
      <4>1. pos[n] # pos[a]
        BY <1>1, <2>3, <3>2 DEF Ordered
      <4>2. pos[n] < pos[a]
        BY <1>1, <3>2, <4>1
      <4> QED BY <1>1, <2>3, <3>2, <4>2 DEF Ordered
    <3> QED BY <3>1, <3>2
  <2>4. From(pos, next[n]) = From(pos, n) \ {n}
    BY <2>3 DEF From
  <2>5. IsStart(n) => From(pos, n) = {a \in Actor : Listed(a) /\ level[a] = list}
    <3> SUFFICES ASSUME IsStart(n), NEW a \in Actor, Listed(a), level[a] = list PROVE pos[n] <= pos[a]
      BY DEF From
    <3>1. n = Start(LevelOf(a))
      BY <1>1, LevelFacts
    <3> QED BY <1>1, <3>1 DEF Ordered
  <2>6. n \in Actor => n \in From(pos, n)
    BY <1>1, NodeFacts DEF From
  <2> QED BY <1>1, <1>3, <2>2, <2>4, <2>5, <2>6 DEF Together
<1> QED BY <1>2, <1>3

-----------------------------------------------------------------------------
(* The loop's steps *)

LEMMA NextListKeeps == ASSUME TypeOK, NextList PROVE list' \in Level /\ made' \in 0 .. NewLimit
BY ActorAssumption DEF TypeOK, NextList, Level

LEMMA InitHolds == Init => IInv
<1> SUFFICES ASSUME Init PROVE IInv
  OBVIOUS
<1> DEFINE after1(n) == CASE n = Start(1) -> Daemon
                          [] n = Daemon -> End(1)
                          [] \E l \in Level \ {1} : n = Start(l) -> End(n[2])
                          [] OTHER -> NULL
           pos == [n \in Node |-> IF n \in Actor THEN 1 ELSE IF IsStart(n) THEN 0 ELSE 2]
<1>1. 1 \in Level /\ Daemon \in Actor /\ Daemon \in Node
  BY ActorAssumption, NodeFacts DEF Level
<1>2. /\ after1(Start(1)) = Daemon /\ after1(Daemon) = End(1)
      /\ \A l \in Level \ {1} : after1(Start(l)) = End(l)
      /\ \A l \in Level : after1(End(l)) = NULL
      /\ \A a \in Actor : a # Daemon => after1(a) = NULL
  <2>1. after1(Start(1)) = Daemon
    <3>1. Start(1) # Daemon /\ \A l \in Level \ {1} : Start(1) # Start(l)
      BY <1>1, NodeFacts
    <3> QED BY <3>1
  <2>2. after1(Daemon) = End(1)
    BY <1>1, NodeFacts
  <2>3. ASSUME NEW l \in Level \ {1} PROVE after1(Start(l)) = End(l)
    <3>1. Start(l) # Start(1) /\ Start(l) # Daemon /\ Start(l)[2] = l
      BY <1>1, NodeFacts DEF Start
    <3> QED BY <3>1
  <2>4. ASSUME NEW l \in Level PROVE after1(End(l)) = NULL
    <3>1. End(l) # Start(1) /\ End(l) # Daemon /\ \A m \in Level : End(l) # Start(m)
      BY <1>1, NodeFacts
    <3> QED BY <3>1
  <2>5. ASSUME NEW a \in Actor, a # Daemon PROVE after1(a) = NULL
    <3>1. a # Start(1) /\ \A m \in Level : a # Start(m)
      BY <1>1, NodeFacts
    <3> QED BY <2>5, <3>1
  <2> QED BY <2>1, <2>2, <2>3, <2>4, <2>5
<1>3. next = [n \in Node |-> after1(n)]
  BY DEF Init
<1>4. prev = [n \in Node |-> IF \E m \in Node : after1(m) = n
                            THEN CHOOSE m \in Node : after1(m) = n ELSE NULL]
  BY DEF Init
<1> HIDE DEF after1
<1>5. /\ next[Start(1)] = Daemon /\ next[Daemon] = End(1)
      /\ \A l \in Level \ {1} : next[Start(l)] = End(l)
      /\ \A l \in Level : next[End(l)] = NULL
      /\ \A a \in Actor : a # Daemon => next[a] = NULL
  BY <1>1, <1>2, <1>3, NodeFacts
<1>6. \A m \in Node : \/ m = Start(1) \/ m = Daemon
                      \/ \E l \in Level \ {1} : m = Start(l) /\ after1(m) = End(l)
                      \/ after1(m) = NULL
  BY <1>2, NodeFacts DEF IsStart, IsEnd
<1>7. ASSUME NEW n \in Node, NEW m \in Node, after1(m) = n, \A k \in Node : after1(k) = n => k = m
      PROVE  prev[n] = m
  BY <1>4, <1>7
<1>8. ASSUME NEW n \in Node, \A k \in Node : after1(k) # n
      PROVE  prev[n] = NULL
  BY <1>4, <1>8
<1>9. prev[Daemon] = Start(1)
  <2>1. Start(1) \in Node /\ after1(Start(1)) = Daemon
    BY <1>1, <1>2, NodeFacts
  <2>2. ASSUME NEW k \in Node, after1(k) = Daemon PROVE k = Start(1)
    BY <1>1, <1>2, <1>6, <2>2, NodeFacts
  <2> QED BY <1>1, <1>7, <2>1, <2>2
<1>10. prev[End(1)] = Daemon
  <2>1. End(1) \in Node /\ after1(Daemon) = End(1)
    BY <1>1, <1>2, NodeFacts
  <2>2. ASSUME NEW k \in Node, after1(k) = End(1) PROVE k = Daemon
    BY <1>1, <1>2, <1>6, <2>2, NodeFacts
  <2> QED BY <1>1, <1>7, <2>1, <2>2
<1>11. \A l \in Level \ {1} : prev[End(l)] = Start(l)
  <2> TAKE l \in Level \ {1}
  <2>1. End(l) \in Node /\ Start(l) \in Node /\ after1(Start(l)) = End(l)
    BY <1>1, <1>2, NodeFacts
  <2>2. ASSUME NEW k \in Node, after1(k) = End(l) PROVE k = Start(l)
    BY <1>1, <1>2, <1>6, <2>2, NodeFacts
  <2> QED BY <1>7, <2>1, <2>2
<1>12. \A l \in Level : prev[Start(l)] = NULL
  <2> TAKE l \in Level
  <2>1. Start(l) \in Node /\ \A k \in Node : after1(k) # Start(l)
    BY <1>1, <1>2, <1>6, NodeFacts
  <2> QED BY <1>8, <2>1
<1>13. \A a \in Actor : a # Daemon => prev[a] = NULL
  <2> SUFFICES ASSUME NEW a \in Actor, a # Daemon PROVE prev[a] = NULL
    OBVIOUS
  <2>1. a \in Node /\ \A k \in Node : after1(k) # a
    BY <1>1, <1>2, <1>6, NodeFacts
  <2> QED BY <1>8, <2>1
<1>14. /\ next \in [Node -> Node \cup {NULL}] /\ prev \in [Node -> Node \cup {NULL}]
  <2>1. \A n \in Node : after1(n) \in Node \cup {NULL}
    BY <1>1, <1>2, <1>6, NodeFacts
  <2>2. \A n \in Node : next[n] \in Node \cup {NULL}
    BY <1>3, <2>1
  <2>3. \A n \in Node : prev[n] \in Node \cup {NULL}
    BY <1>4
  <2>4. next = [n \in Node |-> next[n]] /\ prev = [n \in Node |-> prev[n]]
    BY <1>3, <1>4
  <2> QED BY <2>2, <2>3, <2>4
<1>15. TypeOK
  <2>1. dying = <<>> /\ level \in [Actor -> Level] /\ act \in [Node -> {"none", "act", "quick"}]
    BY <1>1 DEF Init
  <2> QED BY <1>1, <1>14, <2>1, ActorAssumption DEF Init, TypeOK
<1>16. /\ \A a \in Actor : (Listed(a) <=> a = Daemon) /\ level[a] = 1
       /\ \A n \in Node : Linked(n) <=> n = Daemon \/ IsStart(n) \/ IsEnd(n)
  <2>1. \A a \in Actor : (Listed(a) <=> a = Daemon) /\ level[a] = 1
    BY <1>1, <1>5, NodeFacts DEF Listed, Init
  <2> QED BY <1>1, <2>1, NodeFacts DEF IsStart, IsEnd
<1>17. Loose
  BY <1>5, <1>12, <1>13, <1>16 DEF Loose
<1>18. /\ pos \in [Node -> Nat] /\ \A a \in Actor : pos[a] = 1
       /\ \A l \in Level : pos[Start(l)] = 0 /\ pos[End(l)] = 2
  BY NodeFacts
<1> HIDE DEF pos
<1>19. /\ Links(pos) /\ Ordered(pos)
  <2>1. \A l \in Level : Linked(Start(l)) /\ Linked(End(l)) /\ LevelOf(Start(l)) = l /\ LevelOf(End(l)) = l
    BY NodeFacts
  <2>2. Linked(Daemon) /\ LevelOf(Daemon) = 1
    BY <1>1, <1>16, NodeFacts
  <2>3. ASSUME NEW n \in Node, Linked(n)
        PROVE  n = Daemon \/ \E l \in Level : LevelOf(n) = l /\ (n = Start(l) \/ n = End(l))
    BY <1>16, <2>1, <2>3 DEF IsStart, IsEnd
  <2>4. ASSUME NEW n \in Node, Linked(n), ~IsEnd(n)
        PROVE  next[n] \in Node /\ Together(n, next[n]) /\ prev[next[n]] = n /\ pos[n] < pos[next[n]]
    <3>1. CASE n = Daemon
      BY <1>1, <1>5, <1>10, <1>18, <2>1, <2>2, <3>1, NodeFacts DEF Together
    <3>2. CASE n = Start(1)
      BY <1>1, <1>5, <1>9, <1>18, <2>1, <2>2, <3>2 DEF Together
    <3>3. CASE \E l \in Level \ {1} : n = Start(l)
      <4>1. PICK l \in Level \ {1} : n = Start(l)
        BY <3>3
      <4>2. next[n] = End(l) /\ End(l) \in Node /\ prev[End(l)] = n /\ pos[n] = 0 /\ pos[End(l)] = 2
        BY <1>5, <1>11, <1>18, <4>1, NodeFacts
      <4> QED BY <2>1, <4>1, <4>2 DEF Together
    <3> QED BY <1>16, <2>4, <3>1, <3>2, <3>3 DEF IsStart
  <2>5. ASSUME NEW n \in Node, Linked(n), ~IsStart(n)
        PROVE  prev[n] \in Node /\ Together(n, prev[n]) /\ next[prev[n]] = n
    <3>1. CASE n = Daemon
      BY <1>1, <1>5, <1>9, <2>1, <2>2, <3>1, NodeFacts DEF Together
    <3>2. CASE n = End(1)
      BY <1>1, <1>5, <1>10, <2>1, <2>2, <3>2 DEF Together
    <3>3. CASE \E l \in Level \ {1} : n = End(l)
      <4>1. PICK l \in Level \ {1} : n = End(l)
        BY <3>3
      <4>2. prev[n] = Start(l) /\ Start(l) \in Node /\ next[Start(l)] = n
        BY <1>5, <1>11, <4>1, NodeFacts
      <4> QED BY <2>1, <4>1, <4>2 DEF Together
    <3> QED BY <1>16, <2>5, <3>1, <3>2, <3>3 DEF IsEnd
  <2>6. ASSUME NEW n \in Node, NEW m \in Node, Together(n, m), pos[n] = pos[m] PROVE n = m
    <3>1. Linked(n) /\ Linked(m) /\ LevelOf(n) = LevelOf(m)
      BY <2>6 DEF Together
    <3> QED BY <1>1, <1>18, <2>3, <2>6, <3>1
  <2>7. ASSUME NEW n \in Node, Linked(n)
        PROVE  pos[Start(LevelOf(n))] <= pos[n] /\ pos[n] <= pos[End(LevelOf(n))]
    BY <1>1, <1>18, <2>2, <2>3, <2>7
  <2>8. ASSUME NEW n \in Node, NEW m \in Node, Together(n, m), pos[n] < pos[m]
        PROVE  pos[next[n]] <= pos[m]
    <3>1. Linked(n) /\ Linked(m) /\ LevelOf(n) = LevelOf(m)
      BY <2>8 DEF Together
    <3>2. CASE n = Daemon
      BY <1>1, <1>5, <1>18, <2>2, <2>3, <2>8, <3>1, <3>2
    <3>3. CASE n = Start(1)
      BY <1>1, <1>5, <1>18, <2>1, <2>3, <2>8, <3>1, <3>3
    <3>4. CASE \E l \in Level \ {1} : n = Start(l)
      BY <1>5, <1>18, <2>1, <2>2, <2>3, <2>8, <3>1, <3>4
    <3>5. CASE IsEnd(n)
      BY <1>1, <1>18, <2>3, <2>8, <3>1, <3>5 DEF IsEnd
    <3> QED BY <1>16, <3>1, <3>2, <3>3, <3>4, <3>5 DEF IsStart
  <2> QED BY <2>4, <2>5, <2>6, <2>7, <2>8 DEF Links, Ordered
<1>20. InOrder
  <2>1. Ahead(pos)
    BY DEF Ahead, Init
  <2> QED BY <1>18, <1>19, <2>1 DEF InOrder
<1>21. Acting /\ Memory
  <2>1. \A n \in Sentinel : n \in Node /\ n # Daemon
    BY <1>1, NodeFacts DEF Node
  <2> QED BY <1>1, <1>16, <2>1 DEF Init, Acting, Memory, HoldsMemory
<1>22. Looping
  BY DEF Init, Looping
<1> QED BY <1>15, <1>17, <1>20, <1>21, <1>22 DEF IInv

LEMMA AheadOf ==
  ASSUME NEW pos, NEW n, due' = From(pos, n)',
         (where' = "node" /\ this' = n) \/ (where' \in {"act", "die"} /\ after' = n)
  PROVE  Ahead(pos)'
BY DEF Ahead, From, Listed

LEMMA LoopingOf ==
  ASSUME NEW n \in Node, Linked(n)', LevelOf(n)' = list', where' \in {"act", "die"}, after' = n,
         NEW m \in Actor, this' = m, where' = "act" => Linked(m)' /\ LevelOf(m)' = list',
         where' = "die" => dying' # <<>>
  PROVE  Looping'
<1>1. Linked(after)' /\ LevelOf(after)' = list'
  BY DEF Linked, Listed, LevelOf
<1>2. where' = "act" => Linked(this)' /\ LevelOf(this)' = list'
  BY DEF Linked, Listed, LevelOf
<1> QED BY <1>1, <1>2 DEF Looping

\* The loop goes on to a node of its list, or to the next list.
LEMMA GoToKeeps ==
  ASSUME IInv, NEW pos \in [Node -> Nat], Ordered(pos), Links(pos),
         NEW n, n = NULL \/ (n \in Node /\ Linked(n) /\ LevelOf(n) = list),
         GoTo(n), UNCHANGED linkVars, dying' = <<>>,
         due' = IF n = NULL THEN {} ELSE From(pos, n)
  PROVE  /\ Loose' /\ InOrder' /\ Looping'
         /\ list' \in Level /\ made' \in 0 .. NewLimit /\ where' \in {"outside", "node"}
         /\ this' \in Node \cup {NULL} /\ after' = NULL
<1>1. TypeOK /\ Loose
  BY DEF IInv
<1>2. Loose' /\ Ordered(pos)' /\ Links(pos)'
  BY <1>1, SameLinks
<1>3. CASE n = NULL
  <2>1. where' = "outside" /\ this' = NULL /\ after' = NULL /\ NextList
    BY <1>3 DEF GoTo
  <2>2. list' \in Level /\ made' \in 0 .. NewLimit
    BY <1>1, <2>1, NextListKeeps
  <2>3. Ahead(pos)'
    BY <1>3, <2>1 DEF Ahead
  <2>4. InOrder'
    BY <1>2, <2>3 DEF InOrder
  <2> QED BY <1>2, <2>1, <2>2, <2>4 DEF Looping
<1>4. CASE n # NULL
  <2>1. where' = "node" /\ this' = n /\ after' = NULL /\ list' = list /\ made' = made /\ n \in Node
    BY <1>4 DEF GoTo
  <2>2. Linked(n)' /\ LevelOf(n)' = list' /\ due' = From(pos, n)'
    BY <1>4, <2>1, SameLinks
  <2>3. InOrder'
    BY <1>2, <2>1, <2>2, AheadOf DEF InOrder
  <2>4. Linked(this)' /\ LevelOf(this)' = list'
    BY <2>1, <2>2 DEF Linked, Listed, LevelOf
  <2> QED BY <1>1, <1>2, <2>1, <2>3, <2>4 DEF Looping, TypeOK
<1> QED BY <1>3, <1>4

LEMMA MemoryFacts ==
  ASSUME UNCHANGED linkVars
  PROVE  /\ UNCHANGED <<heap, dying>> => (Memory' <=> Memory)
         /\ UNCHANGED act => (Acting' <=> Acting)
<1>1. next' = next
  BY DEF linkVars
<1> QED BY <1>1 DEF Memory, HoldsMemory, Acting, Listed

LEMMA EnterListKeeps == IInv /\ EnterList => IInv'
<1> SUFFICES ASSUME IInv, EnterList PROVE IInv'
  OBVIOUS
<1>1. TypeOK /\ Loose /\ InOrder /\ Looping /\ Acting /\ Memory
  BY DEF IInv
<1>2. /\ UNCHANGED <<linkVars, list, after, act, heap, GV_PauseLevel, dying, made>>
      /\ where = "outside" /\ where' = "node" /\ this' = Start(list)
      /\ due' = {a \in Actor : Listed(a) /\ level[a] = list}
  BY DEF EnterList
<1>3. PICK pos \in [Node -> Nat] : Ordered(pos) /\ Links(pos) /\ Ahead(pos)
  BY <1>1 DEF InOrder
<1>4. Loose' /\ Ordered(pos)' /\ Links(pos)'
  BY <1>1, <1>2, <1>3, SameLinks
<1>5. PICK n \in Node : n = Start(list) /\ IsStart(n) /\ Linked(n) /\ LevelOf(n) = list
  BY <1>1, NodeFacts DEF TypeOK
<1>6. due' = From(pos, n)
  BY <1>1, <1>2, <1>3, <1>5, FromFacts
<1>7. Linked(n)' /\ LevelOf(n)' = list' /\ due' = From(pos, n)'
  BY <1>2, <1>5, <1>6, SameLinks
<1>8. InOrder'
  BY <1>2, <1>4, <1>5, <1>7, AheadOf DEF InOrder
<1>9. Linked(this)' /\ LevelOf(this)' = list' /\ this' \in Node
  BY <1>2, <1>5, <1>7 DEF Linked, Listed, LevelOf
<1>10. Looping'
  BY <1>1, <1>2, <1>9 DEF Looping
<1>11. TypeOK'
  BY <1>1, <1>2, <1>9 DEF TypeOK, linkVars
<1> QED BY <1>1, <1>2, <1>4, <1>8, <1>10, <1>11, MemoryFacts DEF IInv

LEMMA PassOverKeeps == IInv /\ PassOver => IInv'
<1> SUFFICES ASSUME IInv, PassOver PROVE IInv'
  OBVIOUS
<1>1. TypeOK /\ Loose /\ InOrder /\ Looping /\ Acting /\ Memory
  BY DEF IInv
<1>2. /\ UNCHANGED <<linkVars, where, this, after, act, heap, GV_PauseLevel, dying, due>>
      /\ where = "outside" /\ NextList
  BY DEF PassOver
<1>3. PICK pos \in [Node -> Nat] : Ordered(pos) /\ Links(pos) /\ Ahead(pos)
  BY <1>1 DEF InOrder
<1>4. Loose' /\ Ordered(pos)' /\ Links(pos)'
  BY <1>1, <1>2, <1>3, SameLinks
<1>5. Ahead(pos)'
  BY <1>2, <1>3 DEF Ahead
<1>6. InOrder'
  BY <1>4, <1>5 DEF InOrder
<1>7. Looping'
  BY <1>1, <1>2 DEF Looping
<1>8. TypeOK'
  BY <1>1, <1>2, NextListKeeps DEF TypeOK, linkVars
<1> QED BY <1>1, <1>2, <1>4, <1>6, <1>7, <1>8, MemoryFacts DEF IInv

\* Where the loop visits a node, the next one is known and what is due is from there on.
LEMMA VisitFacts ==
  ASSUME IInv, where = "node",
         NEW pos \in [Node -> Nat], Ordered(pos), Links(pos), Ahead(pos)
  PROVE  /\ this \in Node /\ Linked(this) /\ LevelOf(this) = list /\ dying = <<>> /\ after = NULL
         /\ next[this] = NULL => due \ {this} = {}
         /\ next[this] # NULL => /\ next[this] \in Node /\ Linked(next[this])
                                 /\ LevelOf(next[this]) = list /\ next[this] # this
                                 /\ due \ {this} = From(pos, next[this])
         /\ act[this] # "none" => this \in Actor /\ Listed(this)
<1>1. TypeOK /\ Loose /\ Looping /\ Acting
  BY DEF IInv
<1>2. this \in Node /\ Linked(this) /\ LevelOf(this) = list /\ dying = <<>> /\ after = NULL
  BY <1>1 DEF Looping
<1>3. due = From(pos, this)
  BY DEF Ahead
<1>4. act[this] # "none" => this \in Actor /\ Listed(this)
  BY <1>1, <1>2, NodeFacts DEF Acting, Node
<1> QED BY <1>1, <1>2, <1>3, <1>4, FromFacts

LEMMA VisitIdleKeeps == IInv /\ VisitIdle => IInv'
<1> SUFFICES ASSUME IInv, VisitIdle PROVE IInv'
  OBVIOUS
<1>1. TypeOK /\ Loose /\ InOrder /\ Looping /\ Acting /\ Memory
  BY DEF IInv
<1>2. /\ UNCHANGED <<linkVars, act, heap, GV_PauseLevel, dying>>
      /\ where = "node" /\ GoTo(next[this]) /\ due' = due \ {this}
  BY DEF VisitIdle
<1>3. PICK pos \in [Node -> Nat] : Ordered(pos) /\ Links(pos) /\ Ahead(pos)
  BY <1>1 DEF InOrder
<1>4. PICK n : n = next[this]
  OBVIOUS
<1>5. /\ n = NULL \/ (n \in Node /\ Linked(n) /\ LevelOf(n) = list)
      /\ due' = (IF n = NULL THEN {} ELSE From(pos, n)) /\ dying' = <<>>
  BY <1>2, <1>3, <1>4, VisitFacts
<1>6. /\ Loose' /\ InOrder' /\ Looping'
      /\ list' \in Level /\ made' \in 0 .. NewLimit /\ where' \in {"outside", "node"}
      /\ this' \in Node \cup {NULL} /\ after' = NULL
  BY <1>2, <1>3, <1>4, <1>5, GoToKeeps
<1>7. TypeOK'
  BY <1>1, <1>2, <1>6 DEF TypeOK, linkVars
<1> QED BY <1>1, <1>2, <1>6, <1>7, MemoryFacts DEF IInv

LEMMA VisitActKeeps == IInv /\ VisitAct => IInv'
<1> SUFFICES ASSUME IInv, VisitAct PROVE IInv'
  OBVIOUS
<1>1. TypeOK /\ Loose /\ InOrder /\ Looping /\ Acting /\ Memory
  BY DEF IInv
<1>2. /\ UNCHANGED <<linkVars, list, this, act, heap, GV_PauseLevel, dying, made>>
      /\ where = "node" /\ act[this] = "act"
      /\ where' = "act" /\ after' = next[this] /\ due' = due \ {this}
  BY DEF VisitAct
<1>3. PICK pos \in [Node -> Nat] : Ordered(pos) /\ Links(pos) /\ Ahead(pos)
  BY <1>1 DEF InOrder
<1>4. Loose' /\ Ordered(pos)' /\ Links(pos)'
  BY <1>1, <1>2, <1>3, SameLinks
<1>5. this \in Actor /\ Listed(this) /\ next[this] # NULL
  BY <1>2, <1>3, VisitFacts DEF Listed
<1>6. PICK n \in Node : n = next[this] /\ Linked(n) /\ LevelOf(n) = list /\ due' = From(pos, n)
  BY <1>2, <1>3, <1>5, VisitFacts
<1>7. Linked(n)' /\ LevelOf(n)' = list' /\ due' = From(pos, n)'
  BY <1>2, <1>6, SameLinks
<1>8. PICK m \in Actor : m = this /\ Linked(m) /\ LevelOf(m) = list
  BY <1>2, <1>3, <1>5, VisitFacts
<1>9. Linked(m)' /\ LevelOf(m)' = list'
  BY <1>2, <1>8, SameLinks
<1>10. InOrder'
  BY <1>2, <1>4, <1>6, <1>7, AheadOf DEF InOrder
<1>11. Looping'
  BY <1>2, <1>6, <1>7, <1>8, <1>9, LoopingOf
<1>12. TypeOK'
  BY <1>1, <1>2, <1>6 DEF TypeOK, linkVars
<1> QED BY <1>1, <1>2, <1>4, <1>10, <1>11, <1>12, MemoryFacts DEF IInv

\* An actor that is unlinked is its own, and still holds its memory.
LEMMA UnlinkMemory ==
  ASSUME TypeOK, Loose, Acting, Memory, NEW a \in Actor, Listed(a),
         \A n \in Node : Linked(n)' <=> Linked(n) /\ n # a,
         UNCHANGED <<act, heap>>, dying' = <<a>> \o dying
  PROVE  Acting' /\ Memory' /\ dying' \in Seq(Actor) /\ dying' # <<>>
<1>1. dying \in Seq(Actor) /\ dying' \in Seq(Actor) /\ Len(dying) \in Nat /\ Len(dying') = Len(dying) + 1
      /\ DOMAIN dying = 1 .. Len(dying) /\ DOMAIN dying' = 1 .. Len(dying')
      /\ dying'[1] = a /\ \A i \in 1 .. Len(dying') : i # 1 => dying'[i] = dying[i - 1]
  BY DEF TypeOK
<1>2. \A b \in Actor : Listed(b)' <=> Listed(b) /\ b # a
  BY NodeFacts DEF Linked, Listed
<1>3. \A i \in 1 .. Len(dying) : dying[i] \in heap /\ ~Listed(dying[i]) /\ dying[i] \in Actor /\ dying[i] # a
  BY <1>1 DEF Memory, HoldsMemory
<1>4. \A i \in 1 .. Len(dying') : i # 1 => i - 1 \in 1 .. Len(dying)
  BY <1>1
<1>5. Acting'
  BY <1>2 DEF Acting
<1>6. ASSUME NEW i \in 1 .. Len(dying') PROVE dying'[i] \in heap' /\ next'[dying'[i]] = NULL
  <2>1. PICK b \in Actor : b = dying'[i] /\ b \in heap /\ ~Listed(b)'
    BY <1>1, <1>2, <1>3, <1>4 DEF Memory, HoldsMemory
  <2> QED BY <2>1 DEF Listed
<1>7. ASSUME NEW i \in 1 .. Len(dying'), NEW j \in 1 .. Len(dying'), dying'[i] = dying'[j] PROVE i = j
  <2>1. CASE i = 1 \/ j = 1
    BY <1>1, <1>3, <1>4, <1>7, <2>1
  <2>2. CASE i # 1 /\ j # 1
    <3>1. i - 1 \in DOMAIN dying /\ j - 1 \in DOMAIN dying /\ dying[i - 1] = dying[j - 1]
      BY <1>1, <1>4, <1>7, <2>2
    <3>2. i - 1 = j - 1
      BY <3>1 DEF Memory
    <3> QED BY <1>1, <3>2
  <2> QED BY <2>1, <2>2
<1>8. HoldsMemory'
  <2>1. \A b \in Actor : Listed(b)' => b \in heap'
    BY <1>2 DEF Memory, HoldsMemory
  <2>2. \A i \in DOMAIN dying' : dying'[i] \in heap' /\ next'[dying'[i]] = NULL
    BY <1>1, <1>6 DEF Listed
  <2> QED BY <2>1, <2>2 DEF HoldsMemory, Listed
<1>9. Memory'
  BY <1>1, <1>7, <1>8 DEF Memory
<1> QED BY <1>1, <1>5, <1>9

LEMMA VisitQuickKeeps == IInv /\ VisitQuick => IInv'
<1> SUFFICES ASSUME IInv, VisitQuick PROVE IInv'
  OBVIOUS
<1>1. TypeOK /\ Loose /\ InOrder /\ Looping /\ Acting /\ Memory
  BY DEF IInv
<1>2. /\ UNCHANGED <<level, list, this, act, heap, GV_PauseLevel, made>>
      /\ where = "node" /\ act[this] = "quick" /\ Unlink(this)
      /\ where' = "die" /\ after' = next[this] /\ dying' = <<this>> /\ due' = due \ {this}
  BY DEF VisitQuick
<1>3. PICK pos \in [Node -> Nat] : Ordered(pos) /\ Links(pos) /\ Ahead(pos)
  BY <1>1 DEF InOrder
<1>4. PICK m \in Actor : m = this /\ Listed(m)
  BY <1>2, <1>3, VisitFacts
<1>5. PICK n \in Node : n = next[this] /\ Linked(n) /\ LevelOf(n) = list /\ due' = From(pos, n) /\ n # m
  BY <1>2, <1>3, <1>4, VisitFacts DEF Listed
<1>6. /\ Loose' /\ Ordered(pos)' /\ Links(pos)'
      /\ \A k \in Node : Linked(k)' <=> Linked(k) /\ k # m
      /\ next' \in [Node -> Node \cup {NULL}] /\ prev' \in [Node -> Node \cup {NULL}]
  BY <1>1, <1>2, <1>3, <1>4, UnlinkKeeps
<1>7. \A k : LevelOf(k)' = LevelOf(k)
  BY <1>2 DEF LevelOf
<1>8. Linked(n)' /\ LevelOf(n)' = list'
  BY <1>2, <1>5, <1>6, <1>7
<1>9. due' = From(pos, n)'
  <2>1. \A b \in Actor : Listed(b)' <=> Listed(b) /\ b # m
    BY <1>6, NodeFacts DEF Linked, Listed
  <2>2. m \notin From(pos, n)
    BY <1>2, <1>4, <1>5
  <2> QED BY <1>2, <1>5, <2>1, <2>2 DEF From
<1>10. InOrder'
  <2>1. Ahead(pos)'
    BY <1>2, <1>5, <1>9, AheadOf
  <2> QED BY <1>6, <2>1 DEF InOrder
<1>11. Looping'
  <2>1. dying' # <<>> /\ where' # "act"
    BY <1>2
  <2> QED BY <1>2, <1>4, <1>5, <1>8, <2>1, LoopingOf
<1>12. Acting' /\ Memory' /\ dying' \in Seq(Actor)
  <2>1. dying = <<>>
    BY <1>1, <1>2 DEF Looping
  <2>2. dying' = <<m>> \o dying
    BY <1>2, <1>4, <2>1
  <2>3. act' = act /\ heap' = heap
    BY <1>2
  <2> QED BY <1>1, <1>4, <1>6, <2>2, <2>3, UnlinkMemory
<1>13. TypeOK'
  BY <1>1, <1>2, <1>5, <1>6, <1>12 DEF TypeOK
<1> QED BY <1>6, <1>10, <1>11, <1>12, <1>13 DEF IInv

LEMMA ActReturnsKeeps == IInv /\ ActReturns => IInv'
<1> SUFFICES ASSUME IInv, ActReturns PROVE IInv'
  OBVIOUS
<1>1. TypeOK /\ Loose /\ InOrder /\ Looping /\ Acting /\ Memory
  BY DEF IInv
<1>2. /\ UNCHANGED <<linkVars, act, heap, GV_PauseLevel, dying, due>>
      /\ where = "act" /\ dying = <<>> /\ GoTo(after)
  BY DEF ActReturns
<1>3. PICK pos \in [Node -> Nat] : Ordered(pos) /\ Links(pos) /\ Ahead(pos)
  BY <1>1 DEF InOrder
<1>4. PICK n \in Node : n = after /\ Linked(n) /\ LevelOf(n) = list
  BY <1>1, <1>2 DEF Looping
<1>5. n # NULL /\ due' = (IF n = NULL THEN {} ELSE From(pos, n)) /\ dying' = <<>>
  BY <1>2, <1>3, <1>4, NodeFacts DEF Ahead
<1>6. /\ Loose' /\ InOrder' /\ Looping'
      /\ list' \in Level /\ made' \in 0 .. NewLimit /\ where' \in {"outside", "node"}
      /\ this' \in Node \cup {NULL} /\ after' = NULL
  BY <1>2, <1>3, <1>4, <1>5, GoToKeeps
<1>7. TypeOK'
  BY <1>1, <1>2, <1>6 DEF TypeOK, linkVars
<1> QED BY <1>1, <1>2, <1>6, <1>7, MemoryFacts DEF IInv

LEMMA DieReturnsKeeps == IInv /\ DieReturns => IInv'
<1> SUFFICES ASSUME IInv, DieReturns PROVE IInv'
  OBVIOUS
<1>1. TypeOK /\ Loose /\ InOrder /\ Looping /\ Acting /\ Memory
  BY DEF IInv
<1>2. /\ UNCHANGED <<linkVars, act, GV_PauseLevel, due>>
      /\ dying # <<>> /\ dying' = Tail(dying) /\ heap' = heap \ {Head(dying)}
      /\ IF where = "die" /\ Len(dying) = 1 THEN GoTo(after) ELSE UNCHANGED <<loopVars, made>>
  BY DEF DieReturns, Free
<1>3. /\ dying \in Seq(Actor) /\ Len(dying) \in Nat /\ Len(dying) # 0 /\ DOMAIN dying = 1 .. Len(dying)
      /\ dying' \in Seq(Actor) /\ Len(dying') = Len(dying) - 1 /\ DOMAIN dying' = 1 .. Len(dying')
      /\ Head(dying) = dying[1] /\ \A i \in DOMAIN dying' : dying'[i] = dying[i + 1] /\ i + 1 \in DOMAIN dying
      /\ 1 \in DOMAIN dying
  BY <1>1, <1>2 DEF TypeOK
<1>4. \A i \in DOMAIN dying' : i + 1 # 1
  BY <1>3
<1>5. Acting' /\ next' = next
  BY <1>1, <1>2, MemoryFacts DEF linkVars
<1>6. Memory'
  <2>1. \A i \in DOMAIN dying' : dying'[i] \in heap' /\ next'[dying'[i]] = NULL
    BY <1>1, <1>2, <1>3, <1>4, <1>5 DEF Memory, HoldsMemory, Listed
  <2>2. \A b \in Actor : next'[b] # NULL => b \in heap'
    BY <1>1, <1>2, <1>3, <1>5 DEF Memory, HoldsMemory, Listed
  <2>3. ASSUME NEW i \in DOMAIN dying', NEW j \in DOMAIN dying', dying'[i] = dying'[j] PROVE i = j
    <3>1. i + 1 = j + 1
      BY <1>1, <1>3, <2>3 DEF Memory
    <3> QED BY <1>3, <3>1
  <2> QED BY <2>1, <2>2, <2>3 DEF Memory, HoldsMemory, Listed
<1>7. PICK pos \in [Node -> Nat] : Ordered(pos) /\ Links(pos) /\ Ahead(pos)
  BY <1>1 DEF InOrder
<1>8. where \in {"act", "die"} /\ this \in Actor
  BY <1>1, <1>2 DEF Looping, TypeOK
<1>9. PICK n \in Node : n = after /\ Linked(n) /\ LevelOf(n) = list
  BY <1>1, <1>8 DEF Looping
<1>10. n # NULL /\ due = From(pos, n)
  BY <1>7, <1>8, <1>9, NodeFacts DEF Ahead
<1>11. CASE where = "die" /\ Len(dying) = 1
  <2>1. GoTo(n) /\ dying' = <<>> /\ due' = (IF n = NULL THEN {} ELSE From(pos, n))
    BY <1>2, <1>3, <1>9, <1>10, <1>11
  <2>2. /\ Loose' /\ InOrder' /\ Looping'
        /\ list' \in Level /\ made' \in 0 .. NewLimit /\ where' \in {"outside", "node"}
        /\ this' \in Node \cup {NULL} /\ after' = NULL
    BY <1>2, <1>7, <1>9, <2>1, GoToKeeps
  <2>3. TypeOK'
    BY <1>1, <1>2, <1>3, <2>2 DEF TypeOK, linkVars
  <2> QED BY <1>5, <1>6, <2>2, <2>3 DEF IInv
<1>12. CASE ~(where = "die" /\ Len(dying) = 1)
  <2>1. UNCHANGED <<where, list, this, after, made>>
    BY <1>2, <1>12 DEF loopVars
  <2>2. Loose' /\ Ordered(pos)' /\ Links(pos)' /\ Linked(n)' /\ LevelOf(n)' = list' /\ due' = From(pos, n)'
    BY <1>1, <1>2, <1>7, <1>9, <1>10, <2>1, SameLinks
  <2>3. Ahead(pos)'
    BY <1>8, <1>9, <2>1, <2>2, AheadOf
  <2>4. InOrder'
    BY <2>2, <2>3 DEF InOrder
  <2>5. PICK m \in Actor : m = this
    BY <1>8
  <2>6. where' = "act" => Linked(m)' /\ LevelOf(m)' = list'
    <3>1. where' = "act" => Linked(m) /\ LevelOf(m) = list
      BY <1>1, <2>1, <2>5 DEF Looping
    <3> QED BY <1>2, <2>1, <3>1, SameLinks
  <2>7. where' = "die" => dying' # <<>>
    BY <1>3, <1>12, <2>1
  <2>8. Looping'
    BY <1>8, <1>9, <2>1, <2>2, <2>5, <2>6, <2>7, LoopingOf
  <2>9. TypeOK'
    BY <1>1, <1>2, <1>3, <2>1 DEF TypeOK, linkVars
  <2> QED BY <1>5, <1>6, <2>2, <2>4, <2>8, <2>9 DEF IInv
<1> QED BY <1>11, <1>12

-----------------------------------------------------------------------------
(* What an actor does *)

LEMMA NewActorKeeps == ASSUME NEW l \in Level, NEW a \in Actor PROVE IInv /\ NewActor(l, a) => IInv'
<1> SUFFICES ASSUME IInv, NewActor(l, a) PROVE IInv'
  OBVIOUS
<1>1. TypeOK /\ Loose /\ InOrder /\ Looping /\ Acting /\ Memory
  BY DEF IInv
<1>2. /\ UNCHANGED <<where, list, this, after, GV_PauseLevel, dying>>
      /\ where \in {"act", "die"} /\ a \notin heap /\ made < NewLimit /\ made' = made + 1
      /\ heap' = heap \cup {a} /\ Link(l, a)
      /\ level' = [level EXCEPT ![a] = l] /\ act' = [act EXCEPT ![a] = "act"]
      /\ due' = IF l = list /\ after # End(l) THEN due \cup {a} ELSE due
  BY DEF NewActor, Calls, loopVars
<1>3. PICK pos \in [Node -> Nat] : Ordered(pos) /\ Links(pos) /\ Ahead(pos)
  BY <1>1 DEF InOrder
<1>4. ~Listed(a) /\ ~Linked(a)
  BY <1>1, <1>2, NodeFacts DEF Memory, HoldsMemory
<1>5. PICK pos2 : pos2 = [pos EXCEPT ![a] = pos[End(l)], ![End(l)] = pos[End(l)] + 1]
  OBVIOUS
<1>6. /\ pos2 \in [Node -> Nat]
      /\ Loose' /\ Ordered(pos2)' /\ Links(pos2)'
      /\ \A k \in Node : Linked(k)' <=> Linked(k) \/ k = a
      /\ next' \in [Node -> Node \cup {NULL}] /\ prev' \in [Node -> Node \cup {NULL}]
  <2>1. TypeOK /\ Loose /\ ~Listed(a) /\ Link(l, a) /\ level' = [level EXCEPT ![a] = l]
    BY <1>1, <1>2, <1>4
  <2> QED BY <1>3, <1>5, <2>1, LinkKeeps
<1>7. \A k \in Node : k # a => LevelOf(k)' = LevelOf(k)
  BY <1>1, <1>2 DEF LevelOf, TypeOK
<1>8. PICK n \in Node : n = after /\ Linked(n) /\ LevelOf(n) = list
  BY <1>1, <1>2 DEF Looping
<1>9. n # a /\ Linked(n)' /\ LevelOf(n)' = list'
  BY <1>2, <1>4, <1>6, <1>7, <1>8
<1>10. due = From(pos, n)
  BY <1>2, <1>3, <1>8 DEF Ahead
<1>11. due' = From(pos2, n)'
  <2>1. \A b \in Actor : Listed(b)' <=> Listed(b) \/ b = a
    BY <1>6, NodeFacts DEF Linked, Listed
  <2>2. level'[a] = l /\ \A b \in Actor : b # a => level'[b] = level[b]
    BY <1>1, <1>2 DEF TypeOK
  <2>3. /\ End(l) \in Node /\ a \in Node /\ a # End(l) /\ LevelOf(End(l)) = l /\ Linked(End(l))
        /\ \A b \in Actor : b \in Node /\ b # End(l) /\ LevelOf(b) = level[b] /\ (Linked(b) <=> Listed(b))
    BY NodeFacts
  <2>4. /\ pos2[a] = pos[End(l)] /\ pos2[End(l)] = pos[End(l)] + 1 /\ pos[End(l)] \in Nat
        /\ \A k \in Node : k # a /\ k # End(l) => pos2[k] = pos[k]
        /\ \A k \in Node : pos[k] \in Nat
    BY <1>5, <2>3
  <2>5. From(pos2, n)' = {b \in Actor : (Listed(b) \/ b = a) /\ level'[b] = list /\ pos2[n] <= pos2[b]}
    BY <1>2, <2>1 DEF From
  <2>6. CASE n = End(l)
    <3>1. list = l /\ due' = due
      BY <1>2, <1>8, <2>3, <2>6
    <3>2. ASSUME NEW b \in Actor, Listed(b), level[b] = list PROVE pos[b] <= pos[End(l)]
      BY <2>3, <3>1, <3>2, <1>3 DEF Ordered
    <3>3. From(pos2, n)' = {}
      <4> SUFFICES ASSUME NEW b \in Actor, Listed(b) \/ b = a, level'[b] = list, pos2[n] <= pos2[b] PROVE FALSE
        BY <2>5
      <4>1. CASE b = a
        BY <2>4, <2>6, <4>1
      <4>2. CASE b # a
        <5>1. pos[b] <= pos[End(l)] /\ pos2[b] = pos[b] /\ pos[b] \in Nat
          BY <2>2, <2>3, <2>4, <3>2, <4>2
        <5> QED BY <2>4, <2>6, <5>1
      <4> QED BY <4>1, <4>2
    <3>4. due = {}
      <4>1. ASSUME NEW b \in From(pos, n) PROVE FALSE
        <5>1. b \in Actor /\ Listed(b) /\ level[b] = list /\ pos[n] <= pos[b]
          BY DEF From
        <5>2. pos[b] = pos[End(l)]
          BY <2>3, <2>4, <2>6, <3>2, <5>1
        <5>3. Together(b, End(l))
          BY <2>3, <3>1, <5>1 DEF Together
        <5> QED BY <1>3, <2>3, <5>1, <5>2, <5>3 DEF Ordered
      <4> QED BY <1>10, <4>1
    <3> QED BY <3>1, <3>3, <3>4
  <2>7. CASE n # End(l)
    <3>1. pos2[n] = pos[n]
      BY <1>9, <2>4, <2>7
    <3>2. ASSUME NEW b \in Actor, b # a
          PROVE  b \in From(pos2, n)' <=> b \in From(pos, n)
      <4>1. level'[b] = level[b] /\ pos2[b] = pos[b]
        BY <2>2, <2>3, <2>4, <3>2
      <4> QED BY <2>5, <3>1, <3>2, <4>1 DEF From
    <3>3. a \notin From(pos, n)
      BY <1>4 DEF From
    <3>4. CASE l = list
      <4>1. pos[n] <= pos[End(l)]
        BY <1>3, <1>8, <3>4 DEF Ordered
      <4>2. a \in From(pos2, n)'
        BY <2>2, <2>4, <2>5, <3>1, <3>4, <4>1
      <4>3. due' = due \cup {a}
        BY <1>2, <1>8, <2>7, <3>4
      <4>4. From(pos2, n)' \subseteq Actor /\ From(pos, n) \subseteq Actor
        BY DEF From
      <4> QED BY <1>10, <3>2, <4>2, <4>3, <4>4
    <3>5. CASE l # list
      <4>1. a \notin From(pos2, n)'
        BY <2>2, <2>5, <3>5
      <4>2. due' = due
        BY <1>2, <3>5
      <4>3. From(pos2, n)' \subseteq Actor /\ From(pos, n) \subseteq Actor
        BY DEF From
      <4> QED BY <1>10, <3>2, <3>3, <4>1, <4>2, <4>3
    <3> QED BY <3>4, <3>5
  <2> QED BY <2>6, <2>7
<1>12. InOrder'
  <2>1. Ahead(pos2)'
    BY <1>2, <1>8, <1>11, AheadOf
  <2> QED BY <1>6, <2>1 DEF InOrder
<1>13. PICK m \in Actor : m = this
  BY <1>1, <1>2 DEF Looping
<1>14. Looping'
  <2>1. where' = "act" => Linked(m)' /\ LevelOf(m)' = list'
    <3>1. where' = "act" => Linked(m) /\ LevelOf(m) = list
      BY <1>1, <1>2, <1>13 DEF Looping
    <3>2. where' = "act" => m # a /\ m \in Node
      BY <1>4, <3>1, NodeFacts
    <3> QED BY <1>2, <1>6, <1>7, <3>1, <3>2
  <2>2. where' = "die" => dying' # <<>>
    BY <1>1, <1>2 DEF Looping
  <2> QED BY <1>2, <1>8, <1>9, <1>13, <2>1, <2>2, LoopingOf
<1>15. \A b \in Actor : Listed(b)' <=> Listed(b) \/ b = a
  BY <1>6, NodeFacts DEF Linked, Listed
<1>16. Acting'
  <2>1. a \in Node /\ a \notin Sentinel /\ Sentinel \subseteq Node /\ Actor \subseteq Node
    BY NodeFacts DEF Node
  <2>2. act'[a] = "act" /\ \A k \in Node : k # a => act'[k] = act[k]
    BY <1>1, <1>2, <2>1 DEF TypeOK
  <2> QED BY <1>1, <1>15, <2>1, <2>2 DEF Acting
<1>17. Memory'
  <2>1. \A b \in Actor : Listed(b)' => b \in heap'
    BY <1>1, <1>2, <1>15 DEF Memory, HoldsMemory
  <2>2. ASSUME NEW i \in DOMAIN dying' PROVE dying'[i] \in heap' /\ next'[dying'[i]] = NULL
    <3>1. PICK b \in Actor : b = dying[i] /\ b \in heap /\ ~Listed(b)
      BY <1>1, <1>2 DEF Memory, HoldsMemory, TypeOK
    <3> QED BY <1>2, <1>15, <3>1 DEF Listed
  <2>3. \A i, j \in DOMAIN dying' : dying'[i] = dying'[j] => i = j
    BY <1>1, <1>2 DEF Memory
  <2> QED BY <2>1, <2>2, <2>3 DEF Memory, HoldsMemory, Listed
<1>18. TypeOK'
  <2>1. made' \in 0 .. NewLimit
    BY <1>1, <1>2, ActorAssumption DEF TypeOK
  <2>2. act' \in [Node -> {"none", "act", "quick"}] /\ level' \in [Actor -> Level]
    BY <1>1, <1>2 DEF TypeOK
  <2> QED BY <1>1, <1>2, <1>6, <2>1, <2>2 DEF TypeOK
<1> QED BY <1>6, <1>12, <1>14, <1>16, <1>17, <1>18 DEF IInv

\* A call that leaves the lists and the loop alone.
LEMMA CallKeeps ==
  ASSUME IInv, Acting', UNCHANGED <<linkVars, loopVars, heap, dying, made, due>>,
         act' \in [Node -> {"none", "act", "quick"}], GV_PauseLevel' \subseteq PauseBit
  PROVE  IInv'
<1>1. TypeOK /\ Loose /\ InOrder /\ Looping /\ Acting /\ Memory
  BY DEF IInv
<1>2. UNCHANGED <<next, prev, level, where, list, this, after>>
  BY DEF linkVars, loopVars
<1>3. PICK pos \in [Node -> Nat] : Ordered(pos) /\ Links(pos) /\ Ahead(pos)
  BY <1>1 DEF InOrder
<1>4. Loose' /\ Ordered(pos)' /\ Links(pos)'
  BY <1>1, <1>3, SameLinks
<1>5. Ahead(pos)'
  BY <1>2, <1>3 DEF Ahead, From, Listed
<1>6. InOrder'
  BY <1>4, <1>5 DEF InOrder
<1>7. Looping'
  BY <1>1, <1>2 DEF Looping, Linked, Listed, LevelOf
<1>8. TypeOK'
  BY <1>1, <1>2 DEF TypeOK
<1> QED BY <1>1, <1>4, <1>6, <1>7, <1>8, MemoryFacts DEF IInv

LEMMA DestroyActorKeeps == ASSUME NEW a \in Actor PROVE IInv /\ DestroyActor(a) => IInv'
<1> SUFFICES ASSUME IInv, DestroyActor(a) PROVE IInv'
  OBVIOUS
<1>1. /\ TypeOK /\ Acting /\ act' = [act EXCEPT ![a] = "quick"]
      /\ UNCHANGED <<linkVars, loopVars, heap, GV_PauseLevel, dying, made, due>>
  BY DEF IInv, DestroyActor
<1>2. a \in Node /\ a \notin Sentinel /\ Sentinel \subseteq Node /\ Actor \subseteq Node
  BY NodeFacts DEF Node
<1>3. act' \in [Node -> {"none", "act", "quick"}]
  BY <1>1 DEF TypeOK
<1>4. act'[a] = "quick" /\ \A k \in Node : k # a => act'[k] = act[k]
  BY <1>1, <1>2 DEF TypeOK
<1>5. Acting'
  BY <1>1, <1>2, <1>4 DEF Acting, Listed, linkVars
<1> QED BY <1>1, <1>3, <1>5, CallKeeps DEF TypeOK

LEMMA DestroyActorSystemKeeps ==
  ASSUME NEW kill \in Kills PROVE IInv /\ DestroyActorSystem(kill) => IInv'
<1> SUFFICES ASSUME IInv, DestroyActorSystem(kill) PROVE IInv'
  OBVIOUS
<1>1. /\ TypeOK /\ Acting
      /\ act' = [n \in Node |-> IF n \in Actor /\ Listed(n) /\ kill_level[level[n]] <= kill
                                               /\ act[n] # "none"
                                THEN "quick" ELSE act[n]]
      /\ UNCHANGED <<linkVars, loopVars, heap, GV_PauseLevel, dying, made, due>>
  BY DEF IInv, DestroyActorSystem
<1>2. Sentinel \subseteq Node /\ Actor \subseteq Node /\ \A n \in Sentinel : n \notin Actor
  BY NodeFacts DEF Node
<1>3. act' \in [Node -> {"none", "act", "quick"}]
  BY <1>1 DEF TypeOK
<1>4. \A n \in Node : act'[n] = act[n] \/ (n \in Actor /\ act'[n] = "quick")
  BY <1>1
<1>5. Acting'
  BY <1>1, <1>2, <1>4 DEF Acting, Listed, linkVars
<1> QED BY <1>1, <1>3, <1>5, CallKeeps DEF TypeOK

LEMMA SetPauseLevelKeeps ==
  ASSUME NEW bits \in SUBSET PauseBit PROVE IInv /\ SetPauseLevel(bits) => IInv'
<1> SUFFICES ASSUME IInv, SetPauseLevel(bits) PROVE IInv'
  OBVIOUS
<1>1. /\ TypeOK /\ Acting /\ GV_PauseLevel' = bits
      /\ UNCHANGED <<linkVars, loopVars, act, heap, dying, made, due>>
  BY DEF IInv, SetPauseLevel
<1> QED BY <1>1, CallKeeps, MemoryFacts DEF TypeOK

LEMMA DestroyActorQuickKeeps ==
  ASSUME NEW a \in Actor PROVE IInv /\ DestroyActorQuick(a) => IInv'
<1> SUFFICES ASSUME IInv, DestroyActorQuick(a) PROVE IInv'
  OBVIOUS
<1>1. TypeOK /\ Loose /\ InOrder /\ Looping /\ Acting /\ Memory
  BY DEF IInv
<1>2. /\ UNCHANGED <<level, where, list, this, after, act, heap, GV_PauseLevel, made>>
      /\ where \in {"act", "die"} /\ Listed(a) /\ a # this /\ a # after
      /\ Unlink(a) /\ dying' = <<a>> \o dying /\ due' = due \ {a}
  BY DEF DestroyActorQuick, Calls, MayDestroy, loopVars
<1>3. PICK pos \in [Node -> Nat] : Ordered(pos) /\ Links(pos) /\ Ahead(pos)
  BY <1>1 DEF InOrder
<1>4. /\ Loose' /\ Ordered(pos)' /\ Links(pos)'
      /\ \A k \in Node : Linked(k)' <=> Linked(k) /\ k # a
      /\ next' \in [Node -> Node \cup {NULL}] /\ prev' \in [Node -> Node \cup {NULL}]
  BY <1>1, <1>2, <1>3, UnlinkKeeps
<1>5. \A k : LevelOf(k)' = LevelOf(k)
  BY <1>2 DEF LevelOf
<1>6. PICK n \in Node : n = after /\ Linked(n) /\ LevelOf(n) = list
  BY <1>1, <1>2 DEF Looping
<1>7. Linked(n)' /\ LevelOf(n)' = list'
  BY <1>2, <1>4, <1>5, <1>6
<1>8. due' = From(pos, n)'
  <2>1. \A b \in Actor : Listed(b)' <=> Listed(b) /\ b # a
    BY <1>4, NodeFacts DEF Linked, Listed
  <2>2. due = From(pos, n)
    BY <1>2, <1>3, <1>6 DEF Ahead
  <2> QED BY <1>2, <2>1, <2>2 DEF From
<1>9. InOrder'
  <2>1. Ahead(pos)'
    BY <1>2, <1>6, <1>8, AheadOf
  <2> QED BY <1>4, <2>1 DEF InOrder
<1>10. act' = act /\ heap' = heap
  BY <1>2
<1>11. Acting' /\ Memory' /\ dying' \in Seq(Actor) /\ dying' # <<>>
  BY <1>1, <1>2, <1>4, <1>10, UnlinkMemory
<1>12. PICK m \in Actor : m = this
  BY <1>1, <1>2 DEF Looping
<1>13. where' = "act" => Linked(m)' /\ LevelOf(m)' = list'
  <2>1. where' = "act" => Linked(m) /\ LevelOf(m) = list /\ m \in Node /\ m # a
    BY <1>1, <1>2, <1>12, NodeFacts DEF Looping
  <2> QED BY <1>2, <1>4, <1>5, <2>1
<1>14. Looping'
  BY <1>2, <1>6, <1>7, <1>11, <1>12, <1>13, LoopingOf
<1>15. TypeOK'
  BY <1>1, <1>2, <1>4, <1>11 DEF TypeOK
<1> QED BY <1>4, <1>9, <1>11, <1>14, <1>15 DEF IInv

-----------------------------------------------------------------------------
(* The invariant and what it says *)

\* Each step keeps the invariant.
THEOREM Invariant == Spec => []IInv
<1>1. IInv /\ UNCHANGED vars => IInv'
  <2> SUFFICES ASSUME IInv, UNCHANGED vars PROVE IInv'
    OBVIOUS
  <2>1. /\ TypeOK /\ Acting /\ GV_PauseLevel' = GV_PauseLevel
        /\ UNCHANGED <<linkVars, loopVars, act, heap, dying, made, due>>
    BY DEF vars, IInv
  <2> QED BY <2>1, CallKeeps, MemoryFacts DEF TypeOK
<1>2. IInv /\ [Next]_vars => IInv'
  BY <1>1, EnterListKeeps, PassOverKeeps, VisitIdleKeeps, VisitActKeeps, VisitQuickKeeps,
     ActReturnsKeeps, DieReturnsKeeps, NewActorKeeps, DestroyActorKeeps, DestroyActorQuickKeeps,
     DestroyActorSystemKeeps, SetPauseLevelKeeps DEF Next, Loop
<1> QED BY <1>2, InitHolds, PTL DEF Spec

\* The memory of an actor that is on a list, or still dying, is not given away
\* (GV_DestroyActorQuick frees it last).
THEOREM HoldsMemoryHolds == Spec => []HoldsMemory
<1>1. IInv => HoldsMemory
  BY DEF IInv, Memory
<1> QED BY <1>1, Invariant, PTL

\* The loop is only ever at, and only ever goes on to, a node of its own list.
THEOREM LoopOnListHolds == Spec => []LoopOnList
<1>1. ASSUME IInv PROVE LoopOnList
  <2>1. Looping /\ where \in {"outside", "node", "act", "die"}
    BY <1>1 DEF IInv, TypeOK
  <2> QED BY <2>1, NodeFacts DEF Looping, LoopOnList
<1> QED BY <1>1, Invariant, PTL

\* The loop comes to each actor that is on the list when it starts, or is added
\* before it is at the last one, and once.
THEOREM ComesToAllHolds == Spec => []ComesToAll
<1>1. ASSUME IInv PROVE ComesToAll
  <2>1. PICK pos \in [Node -> Nat] : Ordered(pos) /\ Links(pos) /\ Ahead(pos)
    BY <1>1 DEF IInv, InOrder
  <2>2. where = "outside" => due = {}
    BY <2>1 DEF Ahead
  <2>3. ASSUME where = "node", this \in Actor PROVE this \in due
    <3>1. Linked(this) /\ LevelOf(this) = list /\ this \in Node /\ due = From(pos, this)
      BY <1>1, <2>1, <2>3 DEF IInv, Looping, Ahead
    <3>2. TypeOK /\ Loose
      BY <1>1 DEF IInv
    <3> QED BY <2>1, <2>3, <3>1, <3>2, FromFacts
  <2> QED BY <2>2, <2>3 DEF ComesToAll
<1> QED BY <1>1, Invariant, PTL

\* A set of numbers that is not empty has a least one.
LEMMA Least == ASSUME NEW T, T \subseteq Nat, T # {} PROVE \E m \in T : \A k \in T : m <= k
<1> DEFINE R == OpToRel(<, Nat)
<1>1. IsWellFoundedOn(R, Nat)
  BY NatLessThanWellFounded
<1>2. \A x, y \in Nat : <<x, y>> \in R <=> x < y
  BY DEF OpToRel
<1> HIDE DEF R
<1>3. PICK x \in T : \A y \in T : ~ (<<y, x>> \in R)
  BY <1>1, WFMin
<1>4. ASSUME NEW y \in T PROVE x <= y
  <2>1. x \in Nat /\ y \in Nat /\ ~(y < x)
    BY <1>2, <1>3
  <2> QED BY <2>1
<1> QED BY <1>4

\* From the start of a list the links come to each of its nodes: the first one they
\* did not come to would be the next of one they came to.
LEMMA Reaches ==
  ASSUME TypeOK, Loose, NEW pos \in [Node -> Nat], Ordered(pos), Links(pos),
         NEW l \in Level, NEW nodes \in SUBSET NodesOf(l), Start(l) \in nodes, Closed(nodes)
  PROVE  nodes = NodesOf(l)
<1> SUFFICES ASSUME NEW n0 \in NodesOf(l), n0 \notin nodes PROVE FALSE
  OBVIOUS
<1>1. \A n \in NodesOf(l) : n \in Node /\ Linked(n) /\ LevelOf(n) = l
  BY NodeFacts DEF NodesOf
<1>2. \A n \in Node : Linked(n) /\ LevelOf(n) = l => n \in NodesOf(l)
  <2> SUFFICES ASSUME NEW n \in Node, Linked(n), LevelOf(n) = l PROVE n \in NodesOf(l)
    OBVIOUS
  <2>1. n \in Actor => n \in NodesOf(l)
    BY NodeFacts DEF NodesOf
  <2>2. IsStart(n) \/ IsEnd(n) => n \in NodesOf(l)
    BY LevelFacts DEF NodesOf
  <2> QED BY <2>1, <2>2, NodeFacts
<1> DEFINE T == {pos[n] : n \in NodesOf(l) \ nodes}
<1>3. T \subseteq Nat /\ T # {}
  BY <1>1
<1>4. PICK t \in T : \A k \in T : t <= k
  BY <1>3, Least
<1>5. PICK n \in NodesOf(l) : n \notin nodes /\ pos[n] = t
  BY <1>4
<1>6. \A m \in NodesOf(l) : pos[m] < pos[n] => m \in nodes
  <2> SUFFICES ASSUME NEW m \in NodesOf(l), m \notin nodes, pos[m] < pos[n] PROVE FALSE
    OBVIOUS
  <2>1. pos[m] \in T
    OBVIOUS
  <2>2. pos[n] <= pos[m] /\ pos[n] \in Nat /\ pos[m] \in Nat
    BY <1>1, <1>4, <1>5, <2>1
  <2> QED BY <2>2
<1>7. n \in Node /\ Linked(n) /\ LevelOf(n) = l /\ ~IsStart(n)
  BY <1>1, <1>5, LevelFacts
<1>8. prev[n] \in Node /\ Linked(prev[n]) /\ LevelOf(prev[n]) = l /\ next[prev[n]] = n
  BY <1>7 DEF Links, Together
<1>9. ~IsEnd(prev[n]) /\ n # NULL
  BY <1>7, <1>8, NodeFacts DEF Loose, IsEnd
<1>10. pos[prev[n]] < pos[n] /\ prev[n] \in NodesOf(l)
  BY <1>2, <1>8, <1>9 DEF Links
<1> QED BY <1>5, <1>6, <1>8, <1>9, <1>10 DEF Closed

\* Each list is one chain from its start to its end, the same in both directions,
\* through exactly its nodes.
THEOREM ListsWholeHolds == Spec => []ListsWhole
<1>1. ASSUME IInv PROVE ListsWhole
  <2>1. TypeOK /\ Loose
    BY <1>1 DEF IInv
  <2>2. PICK pos \in [Node -> Nat] : Ordered(pos) /\ Links(pos)
    BY <1>1 DEF IInv, InOrder
  <2>3. ASSUME NEW l \in Level
        PROVE  /\ Closed(NodesOf(l))
               /\ \A n \in NodesOf(l) \ {End(l)} : prev[next[n]] = n
    <3>1. ASSUME NEW n \in NodesOf(l)
          PROVE  /\ n # End(l) => next[n] \in NodesOf(l) /\ prev[next[n]] = n
                 /\ n = End(l) => next[n] = NULL
      <4>1. n \in Node /\ Linked(n) /\ LevelOf(n) = l
        BY <3>1, NodeFacts DEF NodesOf
      <4>2. n = End(l) => next[n] = NULL
        BY <2>1 DEF Loose
      <4>3. ASSUME n # End(l) PROVE next[n] \in NodesOf(l) /\ prev[next[n]] = n
        <5>1. ~IsEnd(n)
          BY <2>1, <4>1, <4>3, LevelFacts
        <5>2. next[n] \in Node /\ Linked(next[n]) /\ LevelOf(next[n]) = l /\ prev[next[n]] = n
          BY <2>2, <4>1, <5>1 DEF Links, Together
        <5>3. next[n] \in Actor => next[n] \in NodesOf(l)
          BY <5>2, NodeFacts DEF NodesOf
        <5>4. IsStart(next[n]) \/ IsEnd(next[n]) => next[n] \in NodesOf(l)
          BY <2>1, <5>2, LevelFacts DEF NodesOf
        <5> QED BY <5>2, <5>3, <5>4, NodeFacts
      <4> QED BY <4>2, <4>3
    <3> QED BY <3>1 DEF Closed
  <2>4. \A l \in Level : next[End(l)] = NULL
    BY <2>1 DEF Loose
  <2>5. \A l \in Level : \A nodes \in SUBSET NodesOf(l) :
          Start(l) \in nodes /\ Closed(nodes) => nodes = NodesOf(l)
    BY <2>1, <2>2, Reaches
  <2> QED BY <2>1, <2>3, <2>4, <2>5 DEF ListsWhole
<1> QED BY <1>1, Invariant, PTL
==============================================================================
