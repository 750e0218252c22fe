----------------------------- MODULE DgFrameInv ------------------------------
(***************************************************************************)
(* The inductive invariant of DgFrame.                                     *)
(***************************************************************************)
EXTENDS DgFrame

\* The blocks of a heap: those that have an owner, and the free ones.
BlockAt(m, i) == [start |-> m.units[i].start, size |-> SizeOf(m, i), by |-> m.units[i].state]
LiveIn(m) == {BlockAt(m, i) : i \in {i \in 1..InUse(m) : IsLive(m.units[i])}}
FreeIn(m) == {BlockAt(m, i) : i \in {i \in 1..InUse(m) : m.units[i].state = "free"}}

Tag  == [start : Nat, state : {"free", "void", "used"} \cup Names]
Heap == [dynamic : BOOLEAN, voided : BOOLEAN, failed : BOOLEAN, units : Seq(Tag)]
Piece == [start : Nat \ {0}, size : Nat \ {0}, by : (Names \ Works) \cup {"divide"}]

\* A table goes from one address to another, in order, and ends with a mark; no two free units
\* are neighbours.
Cut(u, from, to) ==
  /\ u \in Seq(Tag) /\ Len(u) \in 2..MaxUnits
  /\ u[1].start = from /\ u[Len(u)] = Unit(to, "used")
  /\ \A i, j \in 1..Len(u) : i < j => u[i].start < u[j].start
  /\ \A i \in 1..Len(u) - 1 : /\ u[i].state \in {"free", "void"} \cup Names
                              /\ u[i].state = "free" => u[i + 1].state # "free"

\* The heaps lie one after the other; the codec has the first two for itself.
Memory ==
  /\ heap \in [{0, 1, 2} -> Heap]
  /\ Cut(heap[2].units, Base(2), Base(2) + NormalSize) /\ ~heap[2].dynamic
  /\ IF codec = "closed"
     THEN \A w \in {0, 1} : Cut(heap[w].units, Base(w), Base(w) + PackSize)
     ELSE /\ Cut(heap[0].units, Base(0), Base(0) + 2 * PackSize) /\ ~heap[0].dynamic
          /\ heap[1] = GV_InitMemorySystem(FALSE, Null, 0)

Typed ==
  /\ {late, noslow, readError, stopped} \subseteq BOOLEAN
  /\ queue \in Seq(Objects) /\ IsInjective(queue)
  /\ packs \in [Objects -> [{0, 1} -> Nat]] /\ block \in [Prims \cup Works -> Nat]
  /\ list \in [{0, 1} -> SUBSET Piece] /\ gpu \in SUBSET Piece

\* Off the screen an object with packets still counts down; with those of both lists, from 1 on.
Counts ==
  \A o \in Objects :
    /\ \A w \in {0, 1} : packs[o][w] # Null => freeCount[o] >= 0
    /\ packs[o][0] # Null /\ packs[o][1] # Null => freeCount[o] >= 1

\* Which modes go together, and when no list is built.
Modes ==
  /\ stage # "play" => ~stopped /\ codec = "closed" /\ ~noslow
  /\ codec # "closed" => stopped /\ stage = "play" /\ ~noslow
  /\ codec = "open" \/ stage = "loading" \/ (stage = "killing" /\ killing < 3) => ~late
  /\ phase = "game" \/ stopped => list[clock] = {}
  /\ drawing # clock

\* The list just built is of blocks that their owners have, and of what is free of its heap.
Built ==
  phase = "start" =>
    \A r \in list[clock] :
      \/ r \in LiveIn(heap[clock]) \cup LiveIn(heap[2])
      \/ r.by = "divide" /\ \E b \in FreeIn(heap[clock]) : r.start = b.start /\ r.size = b.size

\* What the GPU reads is of its owner, or void; only of the other list's heap, while the codec is
\* closed, it reads what is free.
Reads ==
  /\ \A r \in gpu, h \in {0, 1, 2} :
       /\ \A b \in LiveIn(heap[h]) :
            Overlap(r, b) => b = r \/ (codec = "opened" /\ h # 2 /\ b.by \in {"codec", "face"})
       /\ \A b \in FreeIn(heap[h]) :
            Overlap(r, b) => (codec = "opened" /\ h # 2) \/ (codec = "closed" /\ h = 1 - clock)
  /\ late /\ codec = "closed" =>
       \A r \in gpu : r.start + r.size <= Base(clock) \/ Base(clock) + PackSize <= r.start

\* A stage that ends has nothing left when it is reset, and the next one begins without objects.
Ended ==
  /\ stage = "loading" => queue = << >>
  /\ stage = "killing" /\ (killing <= 1 \/ (killing = 2 /\ phase = "start")) =>
       queue = << >> /\ (\A n \in DOMAIN block : block[n] = Null) /\ (phase = "start" => list[clock] = {})
  /\ stage = "killing" /\ killing <= 1 => gpu = {}

IInv == TypeOK /\ Typed /\ Memory /\ PointersRight /\ Counts /\ Modes /\ Built /\ Reads /\ Ended
=============================================================================
