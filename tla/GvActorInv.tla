----------------------------- MODULE GvActorInv -----------------------------
(***************************************************************************)
(* The inductive invariant of GvActor.  That a list has an order is said   *)
(* with a number for each node: the links go from one to the next greater. *)
(***************************************************************************)
EXTENDS GvActor

IsStart(n) == \E l \in Level : n = Start(l)
IsEnd(n)   == \E l \in Level : n = End(l)

\* Two nodes of one list.
Together(n, m) == Linked(n) /\ Linked(m) /\ LevelOf(n) = LevelOf(m)

Ordered(pos) ==
  /\ \A n, m \in Node : Together(n, m) /\ pos[n] = pos[m] => n = m
  /\ \A n \in Node : Linked(n) => /\ pos[Start(LevelOf(n))] <= pos[n]
                                  /\ pos[n] <= pos[End(LevelOf(n))]
  /\ \A n, m \in Node : Together(n, m) /\ pos[n] < pos[m] => pos[next[n]] <= pos[m]

Links(pos) ==
  /\ \A n \in Node : Linked(n) /\ ~IsEnd(n) =>
       next[n] \in Node /\ Together(n, next[n]) /\ prev[next[n]] = n /\ pos[n] < pos[next[n]]
  /\ \A n \in Node : Linked(n) /\ ~IsStart(n) =>
       prev[n] \in Node /\ Together(n, prev[n]) /\ next[prev[n]] = n

\* The ends of the lists, and the nodes that are on none, lead nowhere.
Loose == /\ \A l \in Level : next[End(l)] = NULL /\ prev[Start(l)] = NULL
         /\ \A a \in Actor : ~Listed(a) => prev[a] = NULL

\* The actors of the list from a node on.
From(pos, n) == {a \in Actor : Listed(a) /\ level[a] = list /\ pos[n] <= pos[a]}

\* Where the loop is, the actors it has to come to are those from there on.
Ahead(pos) == due = CASE where = "outside" -> {}
                      [] where = "node" -> From(pos, this)
                      [] OTHER -> From(pos, after)

InOrder == \E pos \in [Node -> Nat] : Ordered(pos) /\ Links(pos) /\ Ahead(pos)

Looping ==
  /\ where = "outside" => this = NULL
  /\ where \in {"outside", "node"} => after = NULL /\ dying = <<>>
  /\ where = "node" => this \in Node
  /\ where \in {"act", "die"} => /\ this \in Actor
                                 /\ after \in Node /\ Linked(after) /\ LevelOf(after) = list
  /\ where \in {"node", "act"} => Linked(this) /\ LevelOf(this) = list
  /\ where = "die" => dying # <<>>

\* Only actors act; one that is on a list does.
Acting == /\ \A n \in Sentinel : act[n] = "none"
          /\ \A a \in Actor : Listed(a) => act[a] # "none"

\* An actor dies once.
Memory == /\ HoldsMemory
          /\ \A i, j \in DOMAIN dying : dying[i] = dying[j] => i = j

IInv == TypeOK /\ Loose /\ InOrder /\ Looping /\ Acting /\ Memory
=============================================================================
