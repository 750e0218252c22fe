------------------------------ MODULE FsStream ------------------------------
(***************************************************************************)
(* libfs/stream.c: a ring of memory that the interrupt of the disk fills   *)
(* with the sectors of a stream and that the game empties block by block.  *)
(* Memory is counted in cells, a sector being Sector of them.  A block is  *)
(* never split: one that does not fit before the end of the heap is copied *)
(* to its start and a mark is left where it was.                           *)
(*                                                                         *)
(* Three parties: the interrupt (StreamReadyCallback), the game's task     *)
(* (FS_StreamSync and what its actors take), the sound task, less urgent,  *)
(* which takes blocks of its own.  The interrupt is one step; a task's     *)
(* walk over the blocks is one step for each header it reads.              *)
(***************************************************************************)
EXTENDS Integers, Sequences, FiniteSets, Functions

CONSTANTS
  Heap,        \* cells of the heap: FS_CDLOAD_BUF_SIZE
  Sector,      \* cells of a sector
  Streams      \* bound: what is played, each a function from the cells where a block starts to [size, type]

Consumer == {"game", "sound"}
BlockOf(S) == [size : 1 .. S, type : Consumer \cup {"end"}]

ASSUME RingAssumption ==
  /\ Sector \in Nat \ {0, 1} /\ Heap \in Nat \ {0} /\ Heap % Sector = 0
  /\ Streams \in Seq(Range(Streams)) /\ Streams # <<>>
  /\ \A s \in Range(Streams) :
       /\ DOMAIN s \subseteq Nat /\ 0 \in DOMAIN s /\ s[0].type # "end"
       /\ \A i \in DOMAIN s :
            /\ s[i] \in BlockOf(Heap)
            /\ s[i].size + 3 * (Sector - 1) <= Heap - (Heap * 2) \div 3
            /\ IF s[i].type = "end" THEN \A j \in DOMAIN s : j <= i
               ELSE /\ i + s[i].size \in DOMAIN s
                    /\ DOMAIN s \cap i + 1 .. i + s[i].size - 1 = {}

VARIABLES
  mem,                          \* the heap
  top, bottom,                  \* fs_stream_top, fs_stream_bottom
  write_ptr, heap_end, unread,  \* fs_stream_write_ptr, fs_stream_heap_end, fs_stream_unread
  read, sector, stop, end, task_state,  \* the variables of these names
  drive,                        \* the read asked of CDBIOS: whether it goes on, where its next sector goes
  sync,                         \* where FS_StreamSync is, "lost" when it has undone the ring
  walk,                         \* where the sound task's FS_StreamGetData is
  held,                         \* the blocks each user was given and has not cleared
  stream, starts                \* the stream played, and its number

ringVars == <<mem, top, bottom, write_ptr, heap_end, unread>>
flagVars == <<read, sector, stop, end, task_state>>
userVars == <<sync, walk, held>>
vars == <<ringVars, flagVars, drive, userVars, stream, starts>>

Addr == 0 .. Heap - 1
None == -1                        \* NULL
Mark  == [cell |-> None, tag |-> "wrap"]
Blank == [cell |-> None, tag |-> "blank"]
Cell(i) == [cell |-> i, tag |-> "fresh"]

IsHeader(p) == mem[p].cell \in DOMAIN stream
Size(m, p) == IF m[p].cell \in DOMAIN stream THEN stream[m[p].cell].size ELSE 1
Type(m, p) == IF m[p].cell \in DOMAIN stream THEN stream[m[p].cell].type ELSE "none"
\* The next header.
After(p) == IF mem[p].tag = "wrap" \/ p + Size(mem, p) >= Heap THEN 0 ELSE p + Size(mem, p)
Ahead(p, q) == IF p <= q THEN q - p ELSE q - p + Heap     \* how far q is in front of p

Idle == [pc |-> "idle", ptr |-> 0, lim |-> 0, read |-> FALSE]
Lost == [Idle EXCEPT !.pc = "lost"]
AtRest == [ptr |-> None, lim |-> 0]
Walking == walk.ptr # None

Init == /\ mem = [p \in Addr |-> Blank]
        /\ top = 0 /\ bottom = 0 /\ write_ptr = 0 /\ heap_end = Heap /\ unread = None
        /\ read = TRUE /\ sector = 0 /\ stop = FALSE /\ end = FALSE /\ task_state = -1
        /\ drive = [on |-> TRUE, buffer |-> 0]
        /\ sync = Idle /\ walk = AtRest /\ held = [c \in Consumer |-> <<>>]
        /\ stream = Streams[1] /\ starts = 1

-----------------------------------------------------------------------------
(* The interrupt *)

\* What is read of the block at p is moved to the start of the heap; the mark sends walkers after it.
Unmarked(m, p, w) == [q \in Addr |-> IF q < w - p THEN m[p + q] ELSE m[q]]
Moved(m, p, w) == [q \in Addr |-> IF q < w - p THEN m[p + q] ELSE IF q = p THEN Mark ELSE m[q]]
EndAfter(w) == Heap - ((Heap - w) % Sector)
FitsBefore(p, size) == p > top \/ size <= top
Fits(p, size) == Ahead(p, top) >= Ahead(p, size)

FinishUnseen == UNCHANGED read /\ drive' = [drive EXCEPT !.on = FALSE]
Finish == read' = FALSE /\ drive' = [drive EXCEPT !.on = FALSE]

GoOnIfRoom(w) == IF Ahead(w, top) >= Sector
                 THEN drive' = [drive EXCEPT !.buffer = w] /\ UNCHANGED read
                 ELSE Finish

\* Reading goes on at w when more than a sector is free there.
GoOn(w) == IF Ahead(w, top) > Sector
           THEN /\ drive' = [drive EXCEPT !.buffer = w]
                /\ UNCHANGED read
           ELSE Finish

\* The first block from p on that is not there to its end, or the end of the stream, among the next n.
Unfinished(m, w) ==
  LET from[n \in 0 .. Heap] ==
        IF n = 0 THEN [p \in Addr |-> p]
        ELSE [p \in Addr |-> LET q == p + Size(m, p) IN
                              IF q > w - 1 THEN p ELSE IF Type(m, q) = "end" THEN q ELSE from[n - 1][q]]
  IN from

StreamReadyCallback ==
  LET w == drive.buffer + Sector
      m == [p \in Addr |-> IF p \in drive.buffer .. w - 1 THEN Cell(sector * Sector + p - drive.buffer) ELSE mem[p]]
      b == Unfinished(m, w)[Heap][bottom]
      size == Size(m, b)
      room == heap_end >= b + size /\ heap_end >= w + Sector
  IN /\ drive.on /\ sync # Lost
     /\ sector' = sector + 1
     /\ \/ /\ stop \/ end
           /\ mem' = m /\ write_ptr' = w
           /\ Finish
           /\ UNCHANGED <<bottom, heap_end, unread, end>>
        \/ /\ ~stop /\ ~end /\ Type(m, b) = "end"
           /\ mem' = m /\ write_ptr' = w /\ bottom' = b /\ end' = TRUE
           /\ Finish
           /\ UNCHANGED <<heap_end, unread>>
        \/ /\ ~stop /\ ~end /\ Type(m, b) # "end" /\ room
           /\ mem' = m /\ write_ptr' = w /\ bottom' = b
           /\ GoOn(w)
           /\ UNCHANGED <<heap_end, unread, end>>
        \/ /\ ~stop /\ ~end /\ Type(m, b) # "end" /\ ~room /\ ~Fits(b, size)
           /\ mem' = m /\ write_ptr' = w /\ bottom' = b /\ unread' = b
           /\ Finish
           /\ UNCHANGED <<heap_end, end>>
        \/ /\ ~stop /\ ~end /\ Type(m, b) # "end" /\ ~room /\ Fits(b, size)
           /\ mem' = Moved(m, b, w) /\ write_ptr' = w - b /\ bottom' = 0
           /\ heap_end' = EndAfter(w - b)
           /\ GoOn(w - b)
           /\ UNCHANGED <<unread, end>>
     /\ UNCHANGED <<top, stop, task_state, userVars, stream, starts>>

-----------------------------------------------------------------------------
(* The game *)

Request(w) == /\ read' = TRUE
              /\ drive' = [on |-> TRUE, buffer |-> w]

\* t is fs_stream_top, which Sync has just stored.
StartRead(t) ==
  LET w == write_ptr - unread
  IN \/ /\ unread = None
        /\ Request(write_ptr)
        /\ UNCHANGED <<mem, bottom, write_ptr, heap_end, unread>>
     \/ /\ unread # None /\ Ahead(unread, t) < Ahead(unread, Size(mem, unread))
        /\ UNCHANGED <<mem, bottom, write_ptr, heap_end, unread, read, drive>>
     \/ /\ unread # None /\ Ahead(unread, t) >= Ahead(unread, Size(mem, unread))
        /\ mem' = Moved(mem, unread, write_ptr)
        /\ write_ptr' = w /\ unread' = None /\ heap_end' = EndAfter(w) /\ bottom' = 0
        /\ Request(w)

\* FS_StreamInit and FS_StreamTaskStart, which NewStreamControl calls one after the other.
FS_StreamTaskStart ==
  /\ starts < Len(Streams) /\ starts' = starts + 1
  /\ stop \/ end
  /\ sync.pc = "idle" /\ ~Walking /\ \A c \in Consumer : held[c] = <<>>
  /\ stream' = Streams[starts']
  /\ heap_end' = Heap /\ end' = FALSE /\ stop' = FALSE /\ sector' = 0 /\ unread' = None
  /\ task_state' = -1 /\ top' = 0 /\ bottom' = 0 /\ write_ptr' = 0
  /\ Request(0)
  /\ UNCHANGED <<mem, userVars>>

\* CDBIOS_ForceStop ends the read at once, or not before its next sector.
FS_StreamStop ==
  /\ sync.pc = "idle" /\ ~stop
  /\ stop' = TRUE /\ end' = TRUE /\ task_state' = 0
  /\ \/ drive' = [drive EXCEPT !.on = FALSE]
     \/ UNCHANGED drive
  /\ UNCHANGED <<ringVars, read, sector, userVars, stream, starts>>

\* The places from fs_stream_top to before fs_stream_bottom where a walk looks at a header.
Headers == LET from[n \in 0 .. Heap] ==
                 IF n = 0 THEN [p \in Addr |-> <<>>]
                 ELSE [p \in Addr |-> IF p = bottom THEN <<>> ELSE <<p>> \o from[n - 1][After(p)]]
           IN from
Trail == Headers[Heap][top]
Live == Range(Trail)
Before(e) == {Trail[n] : n \in {k \in DOMAIN Trail : \A j \in 1 .. k : Trail[j] # e}}

SyncBegin ==
  /\ sync.pc = "idle"
  /\ \/ /\ end \/ stop
        /\ task_state' = 0
        /\ UNCHANGED sync
     \/ /\ ~end /\ ~stop /\ task_state = -1 /\ read
        /\ UNCHANGED <<sync, task_state>>
     \/ /\ ~end /\ ~stop /\ (task_state = -1 => ~read)
        /\ task_state' = 1
        /\ sync' = [pc |-> "walk", ptr |-> top, lim |-> bottom, read |-> read]
  /\ UNCHANGED <<ringVars, read, sector, stop, end, drive, walk, held, stream, starts>>

SyncWalkPastBusy ==
  /\ sync.pc = "walk"
  /\ \E lim \in {sync.lim, bottom} :
       sync' = IF sync.ptr = lim \/ mem[sync.ptr].tag \notin {"wrap", "clear", "busy"}
               THEN [sync EXCEPT !.pc = "end", !.lim = lim]
               ELSE [sync EXCEPT !.ptr = After(sync.ptr), !.lim = lim]
  /\ UNCHANGED <<ringVars, flagVars, drive, walk, held, stream, starts>>

\* The compiler may have kept fs_stream_bottom in a register or load it again.
SyncWalk ==
  /\ sync.pc = "walk"
  /\ \E lim \in {sync.lim, bottom} :
       sync' = IF sync.ptr = lim \/ mem[sync.ptr].tag \notin {"wrap", "clear"}
               THEN [sync EXCEPT !.pc = "end", !.lim = lim]
               ELSE [sync EXCEPT !.ptr = After(sync.ptr), !.lim = lim]
  /\ UNCHANGED <<ringVars, flagVars, drive, walk, held, stream, starts>>

\* A block moved to the start of the heap has filled the ring to fs_stream_top: it looks like an
\* empty one, and a sector is asked for over its first block.
JustFits == bottom = 0 /\ Size(mem, 0) = write_ptr
ReadsOver == ~sync.read /\ sync.ptr = write_ptr /\ JustFits
\* The sound task, preempted inside its walk, stands on what is freed now.
Overtakes == Walking /\ walk.ptr \in Before(sync.ptr)

SyncEndEager ==
  /\ sync.pc = "end"
  /\ top' = sync.ptr
  /\ \/ ~sync.read /\ StartRead(sync.ptr)
     \/ sync.read /\ UNCHANGED <<mem, bottom, write_ptr, heap_end, unread, read, drive>>
  /\ sync' = IF ReadsOver \/ Overtakes THEN Lost ELSE Idle
  /\ UNCHANGED <<sector, stop, end, task_state, walk, held, stream, starts>>

\* Where it has undone the ring, what the tasks meet is no longer headers: nothing is said of it.
SyncEnd ==
  /\ sync.pc = "end"
  /\ top' = sync.ptr
  /\ \/ /\ ~sync.read /\ Ahead(sync.ptr, write_ptr) < (Heap * 2) \div 3
        /\ StartRead(sync.ptr)
     \/ /\ sync.read \/ Ahead(sync.ptr, write_ptr) >= (Heap * 2) \div 3
        /\ UNCHANGED <<mem, bottom, write_ptr, heap_end, unread, read, drive>>
  /\ sync' = IF ReadsOver \/ Overtakes THEN Lost ELSE Idle
  /\ UNCHANGED <<sector, stop, end, task_state, walk, held, stream, starts>>

-----------------------------------------------------------------------------
(* The users: the actors of the game, the sound task *)

\* An actor is done with a block before it looks for another.  The sound task does not run
\* while the game does, and the interrupt only adds to what the walk meets: one step.
GetData ==
  /\ sync.pc = "idle" /\ ~stop /\ held["game"] = <<>>
  /\ \E k \in DOMAIN Trail :
       LET Mine(n) == Type(mem, Trail[n]) = "game" /\ mem[Trail[n]].tag = "fresh"
       IN /\ Mine(k) /\ \A n \in 1 .. k - 1 : ~Mine(n)
          /\ mem' = [mem EXCEPT ![Trail[k]].tag = "busy"]
          /\ held' = [held EXCEPT !["game"] = <<Trail[k]>>]
  /\ UNCHANGED <<top, bottom, write_ptr, heap_end, unread, flagVars, drive, sync, walk, stream, starts>>

\* The sound task plays one block and has the next ready.  The game may take the processor
\* from it between two looks.
SoundGetBegin ==
  /\ sync.pc = "idle" /\ ~Walking /\ Len(held["sound"]) < 2
  /\ ~stop /\ top # bottom
  /\ walk' = [ptr |-> top, lim |-> bottom]
  /\ UNCHANGED <<ringVars, flagVars, drive, sync, held, stream, starts>>

SoundGetWalkUnmarked ==
  /\ sync.pc = "idle" /\ Walking
  /\ \E lim \in {walk.lim, bottom} :
       LET p == walk.ptr
           mine == p # lim /\ Type(mem, p) = "sound" /\ mem[p].tag = "fresh"
       IN /\ walk' = IF p = lim \/ mine THEN AtRest ELSE [ptr |-> After(p), lim |-> lim]
          /\ held' = IF mine THEN [held EXCEPT !["sound"] = Append(@, p)] ELSE held
  /\ UNCHANGED <<ringVars, flagVars, drive, sync, stream, starts>>

SoundGetWalk ==
  /\ sync.pc = "idle" /\ Walking
  /\ \E lim \in {walk.lim, bottom} :
       LET p == walk.ptr
           mine == p # lim /\ Type(mem, p) = "sound" /\ mem[p].tag = "fresh"
       IN /\ walk' = IF p = lim \/ mine THEN AtRest ELSE [ptr |-> After(p), lim |-> lim]
          /\ IF mine THEN /\ mem' = [mem EXCEPT ![p].tag = "busy"]
                          /\ held' = [held EXCEPT !["sound"] = Append(@, p)]
             ELSE UNCHANGED <<mem, held>>
  /\ UNCHANGED <<top, bottom, write_ptr, heap_end, unread, flagVars, drive, sync, stream, starts>>

FS_StreamClear(c) ==
  /\ sync.pc = "idle" /\ held[c] # <<>> /\ (c = "sound" => ~Walking)
  /\ mem' = [mem EXCEPT ![Head(held[c])].tag = "clear"]
  /\ held' = [held EXCEPT ![c] = Tail(@)]
  /\ UNCHANGED <<top, bottom, write_ptr, heap_end, unread, flagVars, drive, sync, walk, stream, starts>>

\* The actor that holds a command drops the sound in front of it when no sound plays.
\* FS_StreamClearType does not know the mark: assumed, none is on its way.
FS_StreamClearType ==
  /\ sync.pc = "idle" /\ ~stop /\ held["game"] # <<>> /\ held["sound"] = <<>> /\ ~Walking
  /\ LET B == Before(Head(held["game"]))
     IN /\ \A p \in B : mem[p].tag # "wrap"
        /\ \E p \in B : Type(mem, p) = "sound" /\ mem[p].tag # "clear"
        /\ mem' = [p \in Addr |-> IF p \in B /\ Type(mem, p) = "sound" THEN [mem[p] EXCEPT !.tag = "clear"] ELSE mem[p]]
  /\ UNCHANGED <<top, bottom, write_ptr, heap_end, unread, flagVars, drive, userVars, stream, starts>>

Next == \/ StreamReadyCallback
        \/ FS_StreamTaskStart \/ FS_StreamStop
        \/ SyncBegin \/ SyncWalk \/ SyncEnd
        \/ GetData \/ SoundGetBegin \/ SoundGetWalk \/ FS_StreamClearType
        \/ \E c \in Consumer : FS_StreamClear(c)
        \/ sync = Lost /\ UNCHANGED vars

\* The drive, once asked, delivers; the game calls FS_StreamSync every frame; a user
\* that can look for a block or give one back does.
Fairness == /\ WF_vars(StreamReadyCallback)
            /\ WF_vars(SyncWalk \/ SyncEnd) /\ SF_vars(SyncBegin)
            /\ SF_vars(GetData) /\ SF_vars(SoundGetBegin) /\ SF_vars(SoundGetWalk)
            /\ \A c \in Consumer : SF_vars(FS_StreamClear(c))

Spec == Init /\ [][Next]_vars /\ Fairness

-----------------------------------------------------------------------------
(* Properties *)

\* Every pointer stays in the heap; fs_stream_heap_end never passes its end.
TypeOK == /\ mem \in [Addr -> [cell : Nat \cup {None}, tag : {"blank", "fresh", "busy", "clear", "wrap"}]]
          /\ {top, bottom} \subseteq Addr /\ {write_ptr, heap_end} \subseteq 0 .. Heap
          /\ unread \in Addr \cup {None} /\ sector \in Nat /\ task_state \in {-1, 0, 1}
          /\ {read, stop, end, drive.on} \subseteq BOOLEAN
          /\ held \in [Consumer -> Seq(Addr)]

\* The first sector is there.
Fed == sector > 0
Whole(p) == /\ IsHeader(p) /\ p + Size(mem, p) <= Heap
            /\ \A j \in 0 .. Size(mem, p) - 1 : mem[p + j].cell = mem[p].cell + j
Follows(p, q) == mem[q].cell = mem[p].cell + Size(mem, p)

\* From fs_stream_top the headers lead to fs_stream_bottom over whole blocks in the order
\* of the disk, and from there to the last sector nothing of the stream is missing: no
\* sector, no block moved to the start of the heap and no mark has hit what is in use.
RingWhole ==
  /\ TypeOK
  /\ Fed /\ ~stop /\ sync # Lost =>
     LET path == Append(Trail, bottom)
         end_of(k) == IF mem[path[k + 1]].tag = "wrap" THEN 0 ELSE path[k + 1]
     IN /\ \A k \in DOMAIN Trail :
             /\ After(path[k]) = path[k + 1]
             /\ mem[path[k]].tag # "wrap" => Whole(path[k]) /\ Follows(path[k], end_of(k))
        /\ mem[bottom].cell \in DOMAIN stream
        /\ bottom < write_ptr /\ mem[write_ptr - 1].cell = sector * Sector - 1
        /\ \A p \in bottom .. write_ptr - 1 : mem[p].cell = mem[bottom].cell + p - bottom

\* What a user was given stays in the ring, whole and marked as its, until it gives it back.
HeldIntact == sync # Lost => \A c \in Consumer : \A k \in 1 .. Len(held[c]) :
  LET p == held[c][k] IN p \in Live /\ Whole(p) /\ Type(mem, p) = c /\ mem[p].tag = "busy"

\* The sound task, looking for a block, never stands where no header is.
WalksHeaders == Walking /\ ~stop /\ sync # Lost /\ walk.ptr # bottom =>
  walk.ptr \in Live /\ (mem[walk.ptr].tag = "wrap" \/ Whole(walk.ptr))

\* Whoever asked for it, the interrupt, which counts the room, or FS_StreamSync, which only looks
\* at how much is used: the next sector comes where the last one ended, in front of what is in
\* use, and of fs_stream_heap_end where the ring has not gone round.
ReadsIntoFree == drive.on /\ sync # Lost =>
  /\ drive.buffer = write_ptr
  /\ drive.buffer + Sector <= IF top <= bottom THEN heap_end ELSE top

\* The ring as a queue of blocks.
Coming == {i \in DOMAIN stream : stream[i].type # "end" /\ (Fed => i >= mem[bottom].cell)}
Tagged(t) == {mem[p].cell : p \in {q \in Live : mem[q].tag = t}}
Fifo == INSTANCE StreamFifo WITH Streams <- Range(Streams), coming <- Coming, fresh <- IF Fed THEN Tagged("fresh") ELSE {},
                                 busy <- Tagged("busy"), lost <- sync = Lost

\* FS_StreamGetData and FS_StreamClear work as the operations of a queue, whatever the interrupt
\* and FS_StreamSync do to the ring: blocks in the order of the disk, each once, none skipped,
\* until FS_StreamSync undoes it.
IsFifo == Fifo!Spec

\* A stream comes to its end and its users get all of it, unless the game stops it; or unless
\* they have emptied the ring when a block must be moved to the start of the heap: the test
\* takes the empty ring for a full one, and nothing moves any more; or the ring is undone.
Stuck == unread # None /\ top = unread
AllGone == end /\ \A p \in Live : mem[p].tag \in {"clear", "wrap"}
Drains == \A n \in 1 .. Len(Streams) : (starts = n) ~> (starts # n \/ stop \/ Stuck \/ sync = Lost \/ AllGone)
=============================================================================
