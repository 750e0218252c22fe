------------------------------ MODULE GvMemory ------------------------------
(***************************************************************************)
(* libgv/memory.c: a heap is a table of units in the order of their        *)
(* addresses.  A unit goes up to the next one's start; the last entry only *)
(* marks the end.  A unit is free, void (freed, but not to be used again   *)
(* before the heap is cleared), or has an owner: where the code stores the *)
(* address of the owner's pointer, or USED, the model stores a name.       *)
(*                                                                         *)
(* Operators only: DgFrame has the heaps.  Sizes are counted in blocks of  *)
(* 16 bytes and are not 0: a unit of no size would share its start with    *)
(* the next one, and GV_FindAllocation could not tell the two apart.       *)
(***************************************************************************)
EXTENDS Integers, SequencesExt

CONSTANT MaxUnits      \* MAX_ALLOC_UNITS, the entries of a table

ASSUME MaxUnitsAssumption == MaxUnits \in Nat \ {0, 1}

Null == 0
Unit(start, state) == [start |-> start, state |-> state]
IsLive(unit) == unit.state \notin {"free", "void"}

\* The units of a heap; without the last entry they are numbered 1..InUse.
InUse(heap) == Len(heap.units) - 1
HeapEnd(heap) == Last(heap.units).start
SizeOf(heap, i) == heap.units[i + 1].start - heap.units[i].start

GV_InitMemorySystem(dynamic, memory, size) ==
  [dynamic |-> dynamic, voided |-> FALSE, failed |-> FALSE,
   units |-> <<Unit(memory, "free"), Unit(memory + size, "used")>>]

\* The first entries of a table, by their count, without those whose numbers are not in keep.
Taken(units, keep) ==
  LET taken[n \in 0..Len(units)] ==
        IF n = 0 THEN << >> ELSE IF n \in keep THEN Append(taken[n - 1], units[n]) ELSE taken[n - 1]
  IN taken
Pick(units, keep) == Taken(units, keep)[Len(units)]

\* The first of the numbers, or 0.
Lowest(numbers) == IF numbers = {} THEN 0 ELSE Min(numbers)

\* Search(u, addr)[n][s] is the number of the one of the n units from s on that starts at addr, or 0.
Search(u, addr) ==
  LET search[n \in 0..Len(u)] == [s \in 1..Len(u) |->
        LET mid == s + n \div 2 IN
        IF n < 2 THEN (IF n = 1 /\ u[s].start = addr THEN s ELSE 0)
        ELSE IF u[mid].start = addr THEN mid
        ELSE IF u[mid].start < addr THEN search[(n - 1) \div 2][mid + 1]
        ELSE search[n \div 2][s]]
  IN search

\* Binary search for the unit that starts at addr: its number, or 0.
GV_FindAllocation(heap, addr) ==
  IF heap.units[1].start <= addr /\ addr < HeapEnd(heap)
  THEN Search(heap.units, addr)[InUse(heap)][1] ELSE 0

GV_FindFreeMemory(heap, size) ==
  Lowest({i \in 1..InUse(heap) : heap.units[i].state = "free" /\ SizeOf(heap, i) >= size})

\* A wrong GV_AllocMemory2 that does not note that it failed.
GV_AllocMemory2Unnoted(heap, size, owner) ==
  LET i == GV_FindFreeMemory(heap, size)
      start == heap.units[i].start
      taken == [heap.units EXCEPT ![i].state = owner]
      split == InsertAt(taken, i + 1, Unit(start + size, "free"))
  IN IF InUse(heap) >= MaxUnits - 1 \/ i = 0 THEN [heap |-> heap, start |-> Null]
     ELSE [heap |-> [heap EXCEPT !.units = IF SizeOf(heap, i) > size THEN split ELSE taken],
           start |-> start]

\* The new heap, and where the block is or Null.
GV_AllocMemory2(heap, size, owner) ==
  LET i == GV_FindFreeMemory(heap, size)
      start == heap.units[i].start
      taken == [heap.units EXCEPT ![i].state = owner]
      split == InsertAt(taken, i + 1, Unit(start + size, "free"))
  IN IF InUse(heap) >= MaxUnits - 1 THEN [heap |-> heap, start |-> Null]
     ELSE IF i = 0 THEN [heap |-> [heap EXCEPT !.failed = TRUE], start |-> Null]
     ELSE [heap |-> [heap EXCEPT !.units = IF SizeOf(heap, i) > size THEN split ELSE taken],
           start |-> start]

\* A wrong GV_FreeMemory that joins the unit with the one after it only.
GV_FreeMemoryOneSide(heap, addr) ==
  LET i == GV_FindAllocation(heap, addr)
      u == [heap.units EXCEPT ![i].state = "free"]
  IN IF i = 0 THEN heap
     ELSE [heap EXCEPT !.units = Pick(u, DOMAIN u \ {k \in {i + 1} : u[k].state = "free"})]

\* Frees at once, and joins the unit with the free ones on both sides.
GV_FreeMemory(heap, addr) ==
  LET i == GV_FindAllocation(heap, addr)
      u == [heap.units EXCEPT ![i].state = "free"]
      joined == {k \in {i, i + 1} : k > 1 /\ u[k].state = "free" /\ u[k - 1].state = "free"}
  IN IF i = 0 THEN heap
     ELSE [heap EXCEPT !.units = Pick(u, DOMAIN u \ joined)]

\* Frees when the heap is next cleared.
GV_FreeMemory2(heap, addr) ==
  LET i == GV_FindAllocation(heap, addr)
  IN IF i = 0 THEN heap ELSE [heap EXCEPT !.units[i].state = "void", !.voided = TRUE]

\* Each run of free and void units becomes one free unit.
GV_ResetVoidedMemorySystem(heap) ==
  LET u == [i \in DOMAIN heap.units |->
              IF IsLive(heap.units[i]) THEN heap.units[i] ELSE Unit(heap.units[i].start, "free")]
  IN Pick(u, {i \in DOMAIN u : i = 1 \/ IsLive(u[i]) \/ IsLive(u[i - 1])})

\* The first n units, the live ones moved together, and the address after them.
Moved(heap) ==
  LET u == heap.units
      moved[n \in 0..InUse(heap)] ==
        IF n = 0 THEN [units |-> << >>, addr |-> u[1].start]
        ELSE LET m == moved[n - 1] IN
             IF IsLive(u[n]) THEN [units |-> Append(m.units, Unit(m.addr, u[n].state)), addr |-> m.addr + SizeOf(heap, n)]
             ELSE m
  IN moved

\* The live units move together to the start of the heap; the rest is free.
GV_ResetDynamicMemorySystem(heap) ==
  LET moved == Moved(heap)[InUse(heap)]
      rest == IF moved.addr = HeapEnd(heap) THEN << >> ELSE <<Unit(moved.addr, "free")>>
  IN moved.units \o rest \o <<Last(heap.units)>>

GV_ClearMemorySystem(heap) ==
  LET moved == IF heap.failed /\ heap.dynamic
               THEN [heap EXCEPT !.units = GV_ResetDynamicMemorySystem(heap)] ELSE heap
  IN [moved EXCEPT !.voided = FALSE, !.failed = FALSE,
                   !.units = IF heap.voided THEN GV_ResetVoidedMemorySystem(moved) ELSE @]

\* A wrong compaction that leaves the pointers as they are.
PointerLeft(heap, owner, pointer) == pointer

\* Where a compaction has put the block of an owner: it stores the new
\* address through the pointer that the unit names.
Pointer(heap, owner, pointer) ==
  LET i == Lowest({k \in DOMAIN heap.units : heap.units[k].state = owner})
  IN IF i = 0 THEN pointer ELSE heap.units[i].start
=============================================================================
