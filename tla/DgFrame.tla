------------------------------ MODULE DgFrame -------------------------------
(***************************************************************************)
(* A frame of the game against the graphics processor (GPU), which goes on *)
(* drawing the list of the frame before and reads its packets where they   *)
(* lie: libdg/dgd.c, frame.c, chanl.c, bound.c and opack.c over the heaps  *)
(* of libgv/memory.c.                                                      *)
(*                                                                         *)
(* The packets of an object are allocated when it comes on the screen, one *)
(* block for each of the two lists, in a heap of that list; a compaction   *)
(* moves them, and the object's pointer with them.  The packets of a       *)
(* primitive are in the normal heap, which actors use too.  The codec      *)
(* takes both packet heaps for itself while it is open, and a stage change *)
(* makes all three heaps anew.                                             *)
(***************************************************************************)
EXTENDS GvMemory

CONSTANTS
  Objects,     \* objects: DG_OBJS of one model
  Prims,       \* primitives: DG_PRIM
  Works,       \* other blocks of the normal heap: the work of actors
  Size,        \* the size of each block, of the codec's ("codec", "face") and of a loaded image
  PackSize,    \* the size of a packet heap (PACK_SIZE)
  NormalSize,  \* the size of the normal heap (MEM_SIZE)
  FreeCount,   \* the frames an object keeps its packets off the screen (8)
  MaxUndraw,   \* a bound for DG_UnDrawFrameCount
  Views,       \* the sets of objects that the camera may see at once
  Scenes       \* what happens together: sets of names and of kinds of events

Names == Objects \cup Prims \cup Works \cup {"codec", "face", "image"}
Events == {"map", "free", "undraw", "late", "readError", "stop", "codec", "change"}

ASSUME FrameAssumption ==
  /\ IsFiniteSet(Objects)
  /\ Objects \cap (Prims \cup Works) = {} /\ Prims \cap Works = {}
  /\ {"codec", "face", "image", "free", "void", "used", "divide"} \cap (Objects \cup Prims \cup Works) = {}
  /\ Size \in [Names -> Nat \ {0}]
  /\ {PackSize, NormalSize, FreeCount, MaxUndraw} \subseteq Nat \ {0}
  /\ Views \subseteq SUBSET Objects
  /\ Scenes \subseteq SUBSET (Names \cup Events)

VARIABLES
  scene,       \* what may happen in this behaviour
  heap,        \* mem_sys: 0 and 1 hold packets, 2 is the normal heap
  clock,       \* GV_Clock: the list that this frame builds
  late,        \* DG_HikituriFlag: the game is late, and leaves this frame out
  noslow,      \* STATE_NOSLOW
  lastWhich,   \* DG_LastWhich, or -1
  undraw,      \* DG_UnDrawFrameCount
  readError,   \* GV_PAUSE_READERROR
  packs,       \* packs[o][w]: where the object's packets for list w are
  freeCount,   \* obj->free_count
  queue,       \* the objects queued in the channel
  screen,      \* those on the screen when the last list was built
  stopped,     \* stop_chanl_system_flag
  block,       \* where a primitive or a work is in the normal heap, or Null
  list,        \* what the GPU reads if it draws a list
  gpu,         \* what it still has to read
  drawing,     \* the list it goes along, or -1
  codec,       \* "closed", "opened" in this frame, "open"
  stage,       \* "play", "killing", "loading"
  killing,     \* frames until the reset (killing_count)
  phase        \* "start": before the frame; "game": actors run

gvars == <<gpu, drawing>>
lists == <<list, screen>>
frame == <<clock, late, lastWhich>>
mode == <<scene, noslow, readError, stopped, codec, stage, killing>>
store == <<heap, packs, freeCount, queue, block>>
vars == <<gvars, lists, frame, mode, store, undraw, phase>>

Base(h) == CASE h = 0 -> 1 [] h = 1 -> 1 + PackSize [] h = 2 -> 1 + 2 * PackSize
Read(start, name) == [start |-> start, size |-> Size[name], by |-> name]
Queued == {queue[i] : i \in DOMAIN queue}
NoPacks == [o \in Objects |-> [w \in {0, 1} |-> Null]]
PacketHeap(w) == GV_InitMemorySystem(TRUE, Base(w), PackSize)

\* GV_ResetPacketMemory, GV_SetPacketTempMemory and ResetMemorySystem.
GV_ResetPacketMemory(heaps) == [heaps EXCEPT ![0] = PacketHeap(0), ![1] = PacketHeap(1)]
GV_SetPacketTempMemory(heaps) ==
  [heaps EXCEPT ![0] = GV_InitMemorySystem(FALSE, Base(0), 2 * PackSize),
                ![1] = GV_InitMemorySystem(FALSE, Null, 0)]
ResetMemorySystem ==
  [h \in {0, 1, 2} |-> IF h = 2 THEN GV_InitMemorySystem(FALSE, Base(2), NormalSize) ELSE PacketHeap(h)]

Init ==
  /\ scene \in Scenes
  /\ heap = ResetMemorySystem /\ block = [n \in Prims \cup Works |-> Null]
  /\ packs = NoPacks /\ freeCount = [o \in Objects |-> 0] /\ queue = << >>
  /\ screen = {} /\ list = [w \in {0, 1} |-> {}] /\ gpu = {} /\ drawing = -1
  /\ clock = 0 /\ late = FALSE /\ lastWhich = -1 /\ undraw = 0
  /\ noslow = FALSE /\ readError = FALSE /\ stopped = FALSE /\ codec = "closed"
  /\ stage = "loading" /\ killing = 0 /\ phase = "start"

-----------------------------------------------------------------------------
(* The frame. *)

\* The GPU has drawn everything; or it is reset after 30 blanks
\* (VsyncCallbackFunc).
GpuDone ==
  /\ gpu # {} \/ drawing # -1
  /\ gpu' = {} /\ drawing' = -1
  /\ UNCHANGED <<lists, frame, mode, store, undraw, phase>>

\* mts_wait_vbl comes back only when the GPU has nothing to do; a frame that
\* is late does not wait.
Waits == ~(noslow /\ late)

Flipped == IF late THEN clock ELSE 1 - clock

\* GV_ClearMemorySystem of the packets of list w: a compaction moves them.
ClearPackets(w) ==
  /\ packs' = [o \in Objects |-> [packs[o] EXCEPT ![w] = Pointer(GV_ClearMemorySystem(heap[w]), o, @)]]
  /\ heap' = [heap EXCEPT ![w] = GV_ClearMemorySystem(@), ![2] = IF late THEN @ ELSE GV_ClearMemorySystem(@)]

\* DG_StartFrame: draws the list of the last frame, unless the screen is to
\* stay as it is.
DrawList(w) ==
  IF readError \/ undraw > 0
  THEN /\ lastWhich' = IF lastWhich < 0 THEN w ELSE lastWhich
       /\ undraw' = IF readError THEN undraw ELSE undraw - 1
       /\ UNCHANGED gvars
  ELSE /\ UNCHANGED undraw
       /\ IF lastWhich = w THEN UNCHANGED <<lastWhich, gvars>>
          ELSE /\ lastWhich' = -1
               /\ IF late THEN UNCHANGED gvars
                  ELSE gpu' = gpu \cup list[1 - w] /\ drawing' = 1 - w

\* The daemons gvd.c and dgd.c, up to the other actors.  Then gamed.c counts
\* the frames of a stage that ends.
StartFrame ==
  /\ phase = "start" /\ phase' = "game"
  /\ Waits => gpu = {} /\ drawing = -1
  /\ clock' = Flipped
  /\ late' \in (IF noslow THEN BOOLEAN ELSE {FALSE})
  /\ DrawList(Flipped)
  /\ ClearPackets(Flipped)
  /\ list' = [list EXCEPT ![Flipped] = {}]
  /\ codec' = IF codec = "opened" THEN "open" ELSE codec
  /\ killing' = IF killing > 0 THEN killing - 1 ELSE 0
  /\ UNCHANGED <<freeCount, queue, block, screen, scene, noslow, readError, stopped, stage>>

\* BoundObjs, for one object of the channel's queue: bound.heap, bound.packs and bound.count go from
\* object to object, and bound.shown are those that have packets to draw.
BoundObj(bound, o) ==
  LET at == bound.packs[o][clock]
      made == GV_AllocMemory2(bound.heap, Size[o], o)
      count == bound.count[o] - 1
  IN IF o \in bound.seen
     THEN IF at # Null
          THEN [bound EXCEPT !.count[o] = FreeCount, !.shown = @ \cup {o}]
          ELSE [bound EXCEPT !.count[o] = FreeCount, !.heap = made.heap,
                             !.packs[o][clock] = made.start,
                             !.shown = IF made.start = Null THEN @ ELSE @ \cup {o}]
     ELSE IF at = Null THEN bound
     ELSE IF count > 0 THEN [bound EXCEPT !.count[o] = count]
     ELSE [bound EXCEPT !.count[o] = count, !.heap = GV_FreeMemory2(@, at), !.packs[o][clock] = Null]

\* BoundObjs, for the first n objects of the queue.
BoundObjs(from) ==
  LET bound[n \in 0..Len(queue)] == IF n = 0 THEN from ELSE BoundObj(bound[n - 1], queue[n])
  IN bound

\* DG_DivideChanl cuts near polygons into packets that it puts into whatever
\* is free of the heap, without allocating it.
Divided(h) == {[start |-> h.units[i].start, size |-> SizeOf(h, i), by |-> "divide"] :
                 i \in {i \in 1..InUse(h) : h.units[i].state = "free"}}

\* DG_EndFrame: the list is built of the objects on the screen and of the
\* primitives, unless the channel is stopped or the frame is left out.
EndFrame ==
  /\ phase = "game" /\ phase' = "start"
  /\ stage = "killing" /\ killing < 3 => queue = << >> /\ \A n \in DOMAIN block : block[n] = Null
  /\ IF stopped \/ late THEN UNCHANGED <<lists, store>>
     ELSE \E seen \in {view \cap Queued : view \in Views} :
            LET from == [heap |-> heap[clock], packs |-> packs, count |-> freeCount, seen |-> seen, shown |-> {}]
                bound == BoundObjs(from)[Len(queue)]
            IN /\ screen' = seen
               /\ heap' = [heap EXCEPT ![clock] = bound.heap]
               /\ packs' = bound.packs /\ freeCount' = bound.count
               /\ list' = [list EXCEPT ![clock] =
                             {Read(bound.packs[o][clock], o) : o \in bound.shown}
                             \cup (IF bound.shown = {} THEN {} ELSE Divided(bound.heap))
                             \cup {Read(block[p], p) : p \in {p \in Prims : block[p] # Null}}]
               /\ UNCHANGED <<queue, block>>
  /\ UNCHANGED <<gvars, frame, mode, undraw>>

-----------------------------------------------------------------------------
(* What actors do in a frame. *)

Paused == codec # "closed" \/ stopped \/ readError
ActorsRun == phase = "game" /\ ~Paused /\ stage # "loading"
Making == ActorsRun /\ stage = "play"

\* DG_FreeObjPacket for list w, for the first n of some objects.
Freed(h, w, os) ==
  LET freed[n \in 0..Len(os)] ==
        IF n = 0 THEN h
        ELSE IF packs[os[n]][w] = Null THEN freed[n - 1] ELSE GV_FreeMemory2(freed[n - 1], packs[os[n]][w])
  IN freed
FreePackets(heaps, os) ==
  [heaps EXCEPT ![0] = Freed(heaps[0], 0, os)[Len(os)], ![1] = Freed(heaps[1], 1, os)[Len(os)]]
Unpacked(os) == [o \in Objects |-> IF o \in Range(os) THEN [w \in {0, 1} |-> Null] ELSE packs[o]]

\* DG_DequeueObjs: the objects behind the one that leaves move up.
Without(q, o) ==
  LET i == Lowest({k \in DOMAIN q : q[k] = o}) IN IF i = 0 THEN q ELSE RemoveAt(q, i)

\* DG_MakeObjs and DG_QueueObjs.
MakeObjs(o) ==
  /\ Making /\ o \in scene \ Queued
  /\ queue' = Append(queue, o) /\ freeCount' = [freeCount EXCEPT ![o] = 0]
  /\ UNCHANGED <<heap, packs, block, gvars, lists, frame, mode, undraw, phase>>

\* DG_DequeueObjs and DG_FreeObjs.
FreeObjs(o) ==
  /\ ActorsRun /\ o \in Queued
  /\ "free" \in scene \/ stage = "killing"
  /\ queue' = Without(queue, o)
  /\ heap' = FreePackets(heap, <<o>>) /\ packs' = Unpacked(<<o>>)
  /\ freeCount' = [freeCount EXCEPT ![o] = 0]
  /\ UNCHANGED <<block, gvars, lists, frame, mode, undraw, phase>>

\* DG_FreeObjsPacket: the object stays, and is given new packets.
FreeObjsPacket(o) ==
  /\ "free" \in scene /\ Making /\ o \in Queued
  /\ heap' = FreePackets(heap, <<o>>) /\ packs' = Unpacked(<<o>>)
  /\ UNCHANGED <<freeCount, queue, block, gvars, lists, frame, mode, undraw, phase>>

\* DG_MakePrim, or GV_Malloc of anything else; without room there is none.
Malloc(n) ==
  /\ Making /\ n \in scene /\ block[n] = Null
  /\ LET made == GV_AllocMemory2(heap[2], Size[n], n)
     IN heap' = [heap EXCEPT ![2] = made.heap] /\ block' = [block EXCEPT ![n] = made.start]
  /\ UNCHANGED <<packs, freeCount, queue, gvars, lists, frame, mode, undraw, phase>>

\* A wrong DG_FreePrim that frees the packets at once.
ReleaseAtOnce(n) ==
  /\ ActorsRun /\ block[n] # Null
  /\ heap' = [heap EXCEPT ![2] = GV_FreeMemory(@, block[n])]
  /\ block' = [block EXCEPT ![n] = Null]
  /\ UNCHANGED <<packs, freeCount, queue, gvars, lists, frame, mode, undraw, phase>>

\* DG_FreePrim is GV_DelayedFree; GV_Free is at once.
Release(n) ==
  /\ ActorsRun /\ block[n] # Null
  /\ heap' = [heap EXCEPT ![2] = IF n \in Prims THEN GV_FreeMemory2(@, block[n]) ELSE GV_FreeMemory(@, block[n])]
  /\ block' = [block EXCEPT ![n] = Null]
  /\ UNCHANGED <<packs, freeCount, queue, gvars, lists, frame, mode, undraw, phase>>

\* Anyone may ask for frames without drawing.
SetUndraw ==
  /\ "undraw" \in scene /\ Making /\ undraw' \in {0, MaxUndraw}
  /\ UNCHANGED <<gvars, lists, frame, mode, store, phase>>

\* A demonstration begins or ends (takabe/pad_demo.c, chara/torture).
SetNoSlow ==
  /\ "late" \in scene /\ Making /\ noslow' = ~noslow
  /\ UNCHANGED <<scene, readError, stopped, codec, stage, killing, gvars, lists, frame, store, undraw, phase>>

\* gamed.c: the disk can, or can again, not be read.
ReadError ==
  /\ "readError" \in scene /\ phase = "game" /\ codec = "closed" /\ stage = "play" /\ readError' = ~readError
  /\ UNCHANGED <<scene, noslow, stopped, codec, stage, killing, gvars, lists, frame, store, undraw, phase>>

\* DG_StopMainChanlSystem, by the pictures and texts that take the screen.
StopMain ==
  /\ "stop" \in scene /\ Making /\ stopped' = TRUE
  /\ heap' = FreePackets(heap, queue) /\ packs' = Unpacked(queue)
  /\ UNCHANGED <<scene, noslow, readError, codec, stage, killing, freeCount, queue, block, gvars, lists, frame, undraw, phase>>

\* DG_RestartMainChanlSystem.
RestartMain ==
  /\ phase = "game" /\ stopped /\ codec = "closed"
  /\ stopped' = FALSE /\ undraw' = 1
  /\ UNCHANGED <<scene, noslow, readError, codec, stage, killing, store, gvars, lists, frame, phase>>

\* The codec opens (menu/radio.c:1508): its own block is made, and cleared,
\* in the same frame.
OpenCodec ==
  /\ "codec" \in scene /\ Making /\ ~noslow
  /\ codec' = "opened" /\ stopped' = TRUE /\ undraw' = MaxUndraw
  /\ packs' = Unpacked(queue)
  /\ heap' = LET temp == GV_SetPacketTempMemory(FreePackets(heap, queue))
             IN [temp EXCEPT ![0] = GV_AllocMemory2(@, Size["codec"], "codec").heap]
  /\ UNCHANGED <<scene, noslow, readError, stage, killing, freeCount, queue, block, gvars, lists, frame, phase>>

\* A text or a face: a block of the codec that the GPU loads an image from.
LoadFace ==
  /\ phase = "game" /\ codec # "closed"
  /\ \A i \in 1..InUse(heap[0]) : heap[0].units[i].state # "face"
  /\ LET made == GV_AllocMemory2(heap[0], Size["face"], "face")
     IN made.start # Null /\ heap' = [heap EXCEPT ![0] = made.heap] /\ gpu' = gpu \cup {Read(made.start, "face")}
  /\ UNCHANGED <<packs, freeCount, queue, block, drawing, lists, frame, mode, undraw, phase>>

\* The codec closes (1604): DrawSync(0) waits for the GPU.
CloseCodec ==
  /\ phase = "game" /\ codec = "open"
  /\ codec' = "closed" /\ stopped' = FALSE /\ undraw' = MaxUndraw
  /\ heap' = GV_ResetPacketMemory(heap)
  /\ gpu' = {} /\ drawing' = -1
  /\ UNCHANGED <<scene, noslow, readError, stage, killing, packs, freeCount, queue, block, lists, frame, phase>>

\* gamed.c:430: the stage ends; its actors are gone by the end of the next frame.
KillStage ==
  /\ "change" \in scene /\ Making
  /\ stage' = "killing" /\ killing' = 3 /\ noslow' = FALSE
  /\ UNCHANGED <<scene, readError, stopped, codec, store, gvars, lists, frame, undraw, phase>>

\* gamed.c:586: GM_ResetSystem and GM_ResetMemory; the loader is the first
\* actor of the new memory.
ResetStage ==
  /\ phase = "game" /\ stage = "killing" /\ killing = 0
  /\ stage' = "loading" /\ queue' = << >>
  /\ list' = [w \in {0, 1} |-> {}] /\ screen' = {}
  /\ \E n \in Works :
       LET made == GV_AllocMemory2(ResetMemorySystem[2], Size[n], n)
       IN heap' = [ResetMemorySystem EXCEPT ![2] = made.heap] /\ block' = [block EXCEPT ![n] = made.start]
  /\ UNCHANGED <<scene, noslow, readError, stopped, codec, killing, packs, freeCount, gvars, frame, undraw, phase>>

\* DG_LoadInitPcx: an image is unpacked into a block of this frame's heap, and
\* freed while the GPU may still load it.
LoadPcx ==
  /\ phase = "game" /\ stage = "loading"
  /\ LET made == GV_AllocMemory2(heap[clock], Size["image"], "image")
     IN heap' = [heap EXCEPT ![clock] = IF made.start = Null THEN made.heap ELSE GV_FreeMemory2(made.heap, made.start)]
        /\ gpu' = IF made.start = Null THEN gpu ELSE gpu \cup {Read(made.start, "image")}
  /\ UNCHANGED <<packs, freeCount, queue, block, drawing, lists, frame, mode, undraw, phase>>

\* The loader is done: the stage's script runs, and may make its objects.
BeginStage ==
  /\ phase = "game" /\ stage = "loading" /\ stage' = "play"
  /\ queue' = IF "map" \in scene THEN SetToSeq(Objects \cap scene) ELSE queue
  /\ UNCHANGED <<scene, noslow, readError, stopped, codec, killing, gvars, lists, frame,
                 heap, packs, freeCount, block, undraw, phase>>

Act ==
  \/ \E o \in Objects : MakeObjs(o) \/ FreeObjs(o) \/ FreeObjsPacket(o)
  \/ \E n \in Prims \cup Works : Malloc(n) \/ Release(n)
  \/ SetUndraw \/ SetNoSlow \/ ReadError \/ StopMain \/ RestartMain
  \/ OpenCodec \/ LoadFace \/ CloseCodec
  \/ KillStage \/ ResetStage \/ LoadPcx \/ BeginStage

Next == GpuDone \/ StartFrame \/ EndFrame \/ Act

Spec == Init /\ [][Next]_vars
\* Frames go on, whatever the actors do; the GPU has only so much to draw.
FairSpec == Spec /\ WF_vars(GpuDone \/ StartFrame \/ EndFrame)

-----------------------------------------------------------------------------
(* Properties. *)

Units(h) == 1..InUse(heap[h])
BlockOf(h, i) == [start |-> heap[h].units[i].start, size |-> SizeOf(heap[h], i), by |-> heap[h].units[i].state]
Overlap(a, b) == a.start < b.start + b.size /\ b.start < a.start + a.size

TypeOK ==
  /\ clock \in {0, 1} /\ drawing \in {-1, 0, 1} /\ lastWhich \in {-1, 0, 1}
  /\ undraw \in 0..MaxUndraw /\ freeCount \in [Objects -> -1..FreeCount]
  /\ stage \in {"play", "killing", "loading"} /\ killing \in 0..3
  /\ codec \in {"closed", "opened", "open"} /\ phase \in {"start", "game"}
  /\ Queued \subseteq Objects /\ screen \subseteq Objects

\* memory.c: a heap is cut into units from its start to its end, in order, no
\* two free ones in a row, and in a table that is large enough for them, whatever
\* was freed, voided, moved and joined.
HeapWhole ==
  /\ TypeOK
  /\ \A h \in {0, 1, 2} :
       LET u == heap[h].units IN
       /\ codec = "closed" \/ h = 2 => u[1].start = Base(h) /\ HeapEnd(heap[h]) = Base(h) + (IF h = 2 THEN NormalSize ELSE PackSize)
       /\ Last(u).state = "used" /\ Len(u) <= MaxUnits
       /\ \A i \in Units(h) : /\ SizeOf(heap[h], i) > 0 \/ heap[h] = GV_InitMemorySystem(FALSE, Null, 0)
                              /\ u[i].state \in {"free", "void"} \cup Names
                              /\ u[i].state = "free" => u[i + 1].state # "free"

\* bound.c, opack.c: the pointers of the objects and the owners of the units of
\* the packet heaps say the same, through compactions, stops and the codec: an
\* object has a pointer exactly to its own unit, of its own size, and no unit
\* is left without the object that would free it.
PointersRight ==
  /\ \A o \in Objects, w \in {0, 1} :
       {BlockOf(w, i) : i \in {i \in Units(w) : heap[w].units[i].state = o}}
         = IF packs[o][w] = Null THEN {} ELSE {Read(packs[o][w], o)}
  /\ \A o \in Objects, w \in {0, 1} : packs[o][w] # Null => o \in Queued /\ codec = "closed"
  /\ \A n \in DOMAIN block :
       {BlockOf(2, i) : i \in {i \in Units(2) : heap[2].units[i].state = n}}
         = IF block[n] = Null THEN {} ELSE {Read(block[n], n)}

\* What the GPU has yet to read stays as it is: the memory belongs to the same
\* block or has been freed since, nobody else has been given it, it has not
\* moved, and the list the GPU goes along is not the one that is being built.
\* The one exception is the codec's opening: it makes blocks in memory that the
\* list of the frame before may still be drawn from.
GpuIntact ==
  /\ phase = "game" => drawing # clock
  /\ \A r \in gpu, h \in {0, 1, 2} : \A i \in Units(h) :
       IsLive(heap[h].units[i]) /\ Overlap(r, BlockOf(h, i))
         => \/ BlockOf(h, i) = r
            \/ codec = "opened" /\ heap[h].units[i].state \in {"codec", "face"}

\* When the camera stays as it is, the objects on the screen get their packets
\* for both lists, if they fit and nobody takes them away, however cut up the
\* heaps have become: the failed allocation makes the next clearing compact the
\* heap (memory.c:598, 300), once the objects off the screen have counted down.
Fits(os) == FoldLeft(LAMBDA sum, o : sum + Size[o], 0, SetToSeq(os)) <= PackSize
Steady(os) == screen = os /\ os \subseteq Queued /\ ~stopped /\ stage = "play" /\ "free" \notin scene
GetsPackets ==
  \A os \in {view \in Views : Fits(view)} :
    <>[]Steady(os) /\ []<>~late => <>[](\A o \in os, w \in {0, 1} : packs[o][w] # Null)
=============================================================================
