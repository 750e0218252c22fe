------------------------------- MODULE GvActor -------------------------------
(***************************************************************************)
(* libgv/actor.c: the lists of actors and the loop that runs them.  A list *)
(* is a chain of nodes between two sentinels.  The loop reads the next    *)
(* node of the one it is at, and only then calls the actor, which may add *)
(* actors to any list, mark actors to be destroyed, destroy one at once,  *)
(* and change the pause level.  An actor marked is unlinked, told to die  *)
(* and freed when the loop comes to it.                                   *)
(***************************************************************************)
EXTENDS Naturals, Sequences, FiniteSets

CONSTANTS Actor,        \* the memory blocks an actor can stand in
          Daemon,       \* the one of gvd.c, which is static and stays
          NULL,
          GV_ACTOR_LEVEL, \* number of lists
          pause_level,  \* by list, the bits of GV_PauseLevel that stop it
          kill_level,   \* by list, its kill level
          PauseBit,     \* the bits in use
          Kills,        \* the kill levels actors are destroyed with
          NewLimit      \* bound: actors made in one frame

Level == 1 .. GV_ACTOR_LEVEL

ASSUME ActorAssumption == /\ GV_ACTOR_LEVEL \in Nat \ {0}
                          /\ pause_level \in [Level -> SUBSET PauseBit]
                          /\ kill_level \in [Level -> Nat]
                          /\ Daemon \in Actor /\ \A k \in Kills : k < kill_level[1]
                          /\ NewLimit \in Nat

Start(l) == <<"start", l>>
End(l)   == <<"end", l>>
Sentinel == {Start(l) : l \in Level} \cup {End(l) : l \in Level}
Node     == Actor \cup Sentinel

ASSUME NodeAssumption == NULL \notin Node /\ Actor \cap Sentinel = {}

VARIABLES
  next, prev,    \* the links of each node
  act,           \* what its act points to: nothing, its own, or GV_DestroyActorQuick
  heap,          \* the blocks that are allocated
  GV_PauseLevel, \* the bits that are on
  where,         \* between two lists, at a node, or in the call of an actor or of its end
  list,          \* the list the loop is at
  this, after,   \* the loop's node, and the next one as it was before the call
  dying,         \* the actors whose die function runs, innermost first
  made,          \* number of actors made in this frame
  level,         \* history: the list each actor was put in
  due            \* history: actors the loop still has to come to on this list

linkVars == <<next, prev, level>>
loopVars == <<where, list, this, after>>
vars == <<linkVars, loopVars, act, heap, GV_PauseLevel, dying, made, due>>

LevelOf(n) == IF n \in Actor THEN level[n] ELSE n[2]

\* GV_InitActorSystem, and GV_StartDaemon puts the first actor on the first list.
Init ==
  LET after1(n) == CASE n = Start(1) -> Daemon
                     [] n = Daemon -> End(1)
                     [] \E l \in Level \ {1} : n = Start(l) -> End(n[2])
                     [] OTHER -> NULL
  IN
  /\ next = [n \in Node |-> after1(n)]
  /\ prev = [n \in Node |-> IF \E m \in Node : after1(m) = n
                            THEN CHOOSE m \in Node : after1(m) = n ELSE NULL]
  /\ act = [n \in Node |-> IF n = Daemon THEN "act" ELSE "none"]
  /\ heap = {Daemon}
  /\ GV_PauseLevel = {}
  /\ where = "outside" /\ list = 1 /\ this = NULL /\ after = NULL
  /\ dying = <<>>
  /\ made = 0
  /\ level = [a \in Actor |-> 1]
  /\ due = {}

Listed(a) == next[a] # NULL

-----------------------------------------------------------------------------
(* The loop: GV_ExecActorSystem *)

\* The next list, or the first one of the next frame.
NextList ==
  /\ list' = IF list = GV_ACTOR_LEVEL THEN 1 ELSE list + 1
  /\ made' = IF list = GV_ACTOR_LEVEL THEN 0 ELSE made

EnterList ==
  /\ where = "outside"
  /\ pause_level[list] \cap GV_PauseLevel = {}
  /\ where' = "node" /\ this' = Start(list)
  /\ due' = {a \in Actor : Listed(a) /\ level[a] = list}
  /\ UNCHANGED <<linkVars, list, after, act, heap, GV_PauseLevel, dying, made>>

PassOver ==
  /\ where = "outside"
  /\ pause_level[list] \cap GV_PauseLevel # {}
  /\ NextList
  /\ UNCHANGED <<linkVars, where, this, after, act, heap, GV_PauseLevel, dying, due>>

\* The loop goes on to the node it had read.
GoTo(n) ==
  IF n = NULL
  THEN where' = "outside" /\ this' = NULL /\ after' = NULL /\ NextList
  ELSE where' = "node" /\ this' = n /\ after' = NULL /\ UNCHANGED <<list, made>>

Unlink(a) ==
  /\ next' = [next EXCEPT ![prev[a]] = next[a], ![a] = NULL]
  /\ prev' = [prev EXCEPT ![next[a]] = prev[a], ![a] = NULL]

VisitIdle ==
  /\ where = "node" /\ act[this] = "none"
  /\ GoTo(next[this])
  /\ due' = due \ {this}
  /\ UNCHANGED <<linkVars, act, heap, GV_PauseLevel, dying>>

VisitAct ==
  /\ where = "node" /\ act[this] = "act"
  /\ where' = "act" /\ after' = next[this]
  /\ due' = due \ {this}
  /\ UNCHANGED <<linkVars, list, this, act, heap, GV_PauseLevel, dying, made>>

\* faulty: the actor is told to die and freed where it stands.
VisitQuickLinked ==
  /\ where = "node" /\ act[this] = "quick"
  /\ where' = "die" /\ after' = next[this]
  /\ dying' = <<this>>
  /\ due' = due \ {this}
  /\ UNCHANGED <<linkVars, list, this, act, heap, GV_PauseLevel, made>>

\* faulty: the next node is read when the actor has been unlinked.
VisitQuickReadsLate ==
  /\ where = "node" /\ act[this] = "quick"
  /\ Unlink(this)
  /\ where' = "die" /\ after' = next'[this]
  /\ dying' = <<this>>
  /\ due' = due \ {this}
  /\ UNCHANGED <<level, list, this, act, heap, GV_PauseLevel, made>>

\* act points to GV_DestroyActorQuick: the actor is unlinked and told to die.
VisitQuick ==
  /\ where = "node" /\ act[this] = "quick"
  /\ where' = "die" /\ after' = next[this]
  /\ Unlink(this)
  /\ dying' = <<this>>
  /\ due' = due \ {this}
  /\ UNCHANGED <<level, list, this, act, heap, GV_PauseLevel, made>>

ActReturns ==
  /\ where = "act" /\ dying = <<>>
  /\ GoTo(after)
  /\ UNCHANGED <<linkVars, act, heap, GV_PauseLevel, dying, due>>

\* The end of GV_DestroyActorQuick: the block goes back to the heap.
Free(a) == heap' = heap \ {a}

DieReturns ==
  /\ dying # <<>>
  /\ dying' = Tail(dying)
  /\ Free(Head(dying))
  /\ IF where = "die" /\ Len(dying) = 1
     THEN GoTo(after)
     ELSE UNCHANGED <<loopVars, made>>
  /\ UNCHANGED <<linkVars, act, GV_PauseLevel, due>>

-----------------------------------------------------------------------------
(* What an actor does while it acts or dies *)

Calls == where \in {"act", "die"}

\* faulty: the end does not get its link back to the new node.
LinkHalf(l, a) ==
  /\ next' = [next EXCEPT ![prev[End(l)]] = a, ![a] = End(l)]
  /\ prev' = [prev EXCEPT ![a] = prev[End(l)]]

Link(l, a) ==
  /\ next' = [next EXCEPT ![prev[End(l)]] = a, ![a] = End(l)]
  /\ prev' = [prev EXCEPT ![End(l)] = a, ![a] = prev[End(l)]]

\* GV_NewActor and GV_SetNamedActor, which its callers call next; GV_Malloc may
\* give out any block that is free.
NewActor(l, a) ==
  /\ Calls
  /\ a \notin heap
  /\ made < NewLimit
  /\ made' = made + 1
  /\ heap' = heap \cup {a}
  /\ Link(l, a)
  /\ level' = [level EXCEPT ![a] = l]
  /\ act' = [act EXCEPT ![a] = "act"]
  /\ due' = IF l = list /\ after # End(l) THEN due \cup {a} ELSE due
  /\ UNCHANGED <<loopVars, GV_PauseLevel, dying>>

\* faulty: the actor is unlinked at once.
DestroyActorAtOnce(a) ==
  /\ Calls
  /\ Listed(a) /\ a # Daemon
  /\ Unlink(a)
  /\ dying' = <<a>> \o dying
  /\ due' = due \ {a}
  /\ UNCHANGED <<level, loopVars, act, heap, GV_PauseLevel, made>>

\* GV_DestroyActor of an actor that is there, itself or another; GV_DestroyOtherActor,
\* which looks for its target on the lists first.
DestroyActor(a) ==
  /\ Calls
  /\ Listed(a) /\ a # Daemon
  /\ act' = [act EXCEPT ![a] = "quick"]
  /\ UNCHANGED <<linkVars, loopVars, heap, GV_PauseLevel, dying, made, due>>

DestroyActorSystem(kill) ==
  /\ Calls
  /\ act' = [n \in Node |-> IF n \in Actor /\ Listed(n) /\ kill_level[level[n]] <= kill
                                           /\ act[n] # "none"
                            THEN "quick" ELSE act[n]]
  /\ UNCHANGED <<linkVars, loopVars, heap, GV_PauseLevel, dying, made, due>>

\* Assumed of the actors that destroy another one at once: it does not come next.
MayDestroy(a) == Listed(a) /\ a \notin {this, after, Daemon}

DestroyActorQuick(a) ==
  /\ Calls
  /\ MayDestroy(a)
  /\ Unlink(a)
  /\ dying' = <<a>> \o dying
  /\ due' = due \ {a}
  /\ UNCHANGED <<level, loopVars, act, heap, GV_PauseLevel, made>>

SetPauseLevel(bits) ==
  /\ Calls
  /\ GV_PauseLevel' = bits
  /\ UNCHANGED <<linkVars, loopVars, act, heap, dying, made, due>>

Loop == \/ EnterList \/ PassOver
        \/ VisitIdle \/ VisitAct \/ VisitQuick
        \/ ActReturns \/ DieReturns

Next == \/ Loop
        \/ \E l \in Level, a \in Actor : NewActor(l, a)
        \/ \E a \in Actor : DestroyActor(a) \/ DestroyActorQuick(a)
        \/ \E kill \in Kills : DestroyActorSystem(kill)
        \/ \E bits \in SUBSET PauseBit : SetPauseLevel(bits)

Spec == Init /\ [][Next]_vars

\* An actor returns from its call, and the loop goes on.
FairSpec == Spec /\ WF_vars(Loop)

-----------------------------------------------------------------------------
(* Properties *)

\* Every variable has its type.
TypeOK ==
  /\ next \in [Node -> Node \cup {NULL}] /\ prev \in [Node -> Node \cup {NULL}]
  /\ act \in [Node -> {"none", "act", "quick"}]
  /\ heap \subseteq Actor
  /\ GV_PauseLevel \subseteq PauseBit
  /\ where \in {"outside", "node", "act", "die"}
  /\ list \in Level
  /\ this \in Node \cup {NULL} /\ after \in Node \cup {NULL}
  /\ dying \in Seq(Actor)
  /\ made \in 0 .. NewLimit
  /\ level \in [Actor -> Level]
  /\ due \subseteq Actor

Linked(n) == n \in Sentinel \/ Listed(n)

\* The nodes of a list: its sentinels, and the actors put on it and not destroyed since.
NodesOf(l) == {Start(l), End(l)} \cup {a \in Actor : Listed(a) /\ level[a] = l}

\* The links lead from these nodes to none but these.
Closed(nodes) == \A n \in nodes : next[n] # NULL => next[n] \in nodes

\* Each list is one chain from its start to its end, the same in both directions,
\* through exactly its nodes: from the start the links lead to no other node, and
\* to each of them.
ListsWhole ==
  /\ TypeOK
  /\ \A l \in Level :
    /\ Closed(NodesOf(l))
    /\ \A nodes \in SUBSET NodesOf(l) : Start(l) \in nodes /\ Closed(nodes) => nodes = NodesOf(l)
    /\ next[End(l)] = NULL
    /\ \A n \in NodesOf(l) \ {End(l)} : prev[next[n]] = n

\* The loop is only ever at, and only ever goes on to, a node of its own list: it
\* calls no actor that was destroyed, although it reads the next node too early.
LoopOnList ==
  /\ this # NULL /\ where # "die" => Linked(this) /\ LevelOf(this) = list
  /\ after # NULL => Linked(after) /\ LevelOf(after) = list

\* The memory of an actor that is on a list, or still dying, is not given away.
HoldsMemory == /\ \A a \in Actor : Listed(a) => a \in heap
               /\ \A i \in DOMAIN dying : dying[i] \in heap /\ ~Listed(dying[i])

\* Whatever is added and destroyed on the way, the loop comes to each actor that is
\* on the list when it starts, or is added before it is at the last one, and once.
ComesToAll == /\ where = "outside" => due = {}
              /\ where = "node" /\ this \in Actor => this \in due

\* An actor marked with GV_DestroyActor is taken off its list, if that is run again
\* and again.
MarkedLeaves ==
  \A l \in Level :
    []<>(where = "node" /\ list = l)
      => \A a \in Actor : Listed(a) /\ act[a] = "quick" /\ level[a] = l ~> ~Listed(a)
==============================================================================
