----------------------------- MODULE FsStreamInv -----------------------------
(***************************************************************************)
(* The inductive invariant of FsStream.                                    *)
(***************************************************************************)
EXTENDS FsStream

Count == sector * Sector                 \* the cells of the stream that have come

\* The cells from p to before q are those of the stream before its n-th.
Laid(p, q, n) == \A x \in p .. q - 1 : mem[x].cell = n - (q - x)

\* What is in use before fs_stream_bottom; where the ring goes round, it does so at m.
InUse(m) == IF top <= bottom THEN top .. bottom - 1 ELSE top .. m \cup 0 .. bottom - 1
Heads(m) == {p \in InUse(m) : IsHeader(p) \/ mem[p].tag = "wrap"}
Places(m) == Heads(m) \cup {bottom}

\* Headers in the order of the stream, the mark before the block it leads to.
Key(p) == IF mem[p].tag = "wrap" THEN 2 * mem[0].cell ELSE 2 * mem[p].cell + 1

Typed ==
  /\ starts \in 1 .. Len(Streams) /\ stream = Streams[starts]
  /\ \A p \in Addr : mem[p].tag = "wrap" => mem[p].cell = None
  /\ drive \in [on : BOOLEAN, buffer : 0 .. Heap]
  /\ sync \in [pc : {"idle", "walk", "end"}, ptr : Addr, lim : Addr, read : BOOLEAN]
  /\ walk \in [ptr : Addr \cup {None}, lim : Addr]

\* Before the first sector.
Opening ==
  ~Fed => /\ top = 0 /\ bottom = 0 /\ write_ptr = 0 /\ heap_end = Heap /\ unread = None
          /\ sync.pc = "idle" /\ ~Walking /\ \A c \in Consumer : held[c] = <<>>
          /\ ~stop => drive.on /\ read /\ ~end /\ task_state = -1

\* The ring, from fs_stream_top to the last sector.
Base == Count - write_ptr                \* the number of the cell at the start of the heap
Ring(m) ==
  Fed => /\ bottom < write_ptr /\ Base + bottom \in DOMAIN stream
         /\ \A p \in bottom .. write_ptr - 1 : mem[p].tag = "fresh"
         /\ IF top <= bottom
            THEN Laid(top, write_ptr, Count) /\ Base + top \in DOMAIN stream
            ELSE /\ write_ptr <= top /\ top <= m /\ mem[m] = Mark
                 /\ Laid(0, write_ptr, Count) /\ Laid(top, m, Base)
                 /\ Base \in DOMAIN stream /\ (top = m \/ Base - m + top \in DOMAIN stream)

\* Where the disk may write, and when it does not.
Reading ==
  /\ Heap - Sector < heap_end /\ heap_end <= Heap
  /\ drive.on => /\ drive.buffer = write_ptr /\ read /\ unread = None
                 /\ stop \/ ~end
                 /\ write_ptr + Sector <= IF top <= bottom THEN heap_end ELSE top
  /\ Fed /\ ~end => Type(mem, bottom) # "end"
  /\ Fed /\ ~end /\ unread = None => write_ptr + Sector <= heap_end
  /\ unread # None =>
       /\ Fed /\ unread = bottom /\ Type(mem, bottom) # "end"
       /\ write_ptr <= bottom + Size(mem, bottom)
       /\ heap_end < bottom + Size(mem, bottom) \/ heap_end < write_ptr + Sector

\* What the game has stopped has come to its end.
Stopping == stop => sync.pc = "idle" /\ end

\* What FS_StreamSync has passed is nobody's.
Syncing(m) ==
  sync.pc # "idle" =>
    /\ Fed
    /\ ~sync.read => ~drive.on /\ ~end /\ ~read
    /\ {sync.ptr, sync.lim} \subseteq Places(m) /\ Key(sync.ptr) <= Key(sync.lim)
    /\ \A p \in Heads(m) : Key(p) < Key(sync.ptr) => mem[p].tag \in {"clear", "wrap"}

\* What the sound task has passed was not for it.
Seeking(m) ==
  Walking =>
    /\ {walk.ptr, walk.lim} \subseteq Places(m) /\ Key(walk.ptr) <= Key(walk.lim)
    /\ \A p \in Heads(m) : Key(p) < Key(walk.ptr) /\ Type(mem, p) = "sound" => mem[p].tag # "fresh"

\* The blocks marked as taken are those held, in their order, and before those nobody took.
Holding(m) ==
  /\ \A c \in Consumer : \A i \in 1 .. Len(held[c]) :
       LET p == held[c][i] IN
       /\ p \in Heads(m) /\ Type(mem, p) = c /\ mem[p].tag = "busy"
       /\ \A j \in 1 .. i - 1 : mem[held[c][j]].cell < mem[p].cell
       /\ \A q \in Heads(m) : Type(mem, q) = c /\ mem[q].tag = "fresh" => mem[p].cell < mem[q].cell
  /\ \A p \in Heads(m) : mem[p].tag = "busy" => \E c \in Consumer : p \in Range(held[c])

Parts(m) == Ring(m) /\ Syncing(m) /\ Seeking(m) /\ Holding(m)
IInv == TypeOK /\ Typed /\ Opening /\ Reading /\ Stopping /\ \E m \in Addr : Parts(m)

\* The ring is filled to the last cell by no sector, only by a block that is moved.
Filling ==
  /\ \E k \in Int : heap_end = write_ptr + k * Sector
  /\ drive.on /\ bottom < top => write_ptr + Sector < top
  /\ Fed /\ write_ptr = top => JustFits

\* All this until FS_StreamSync undoes the ring.
Inductive == TypeOK /\ (sync = Lost \/ (IInv /\ Filling))
=============================================================================
