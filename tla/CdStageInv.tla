----------------------------- MODULE CdStageInv -----------------------------
(***************************************************************************)
(* The inductive invariant of CdStage: how far the disk is, what of the    *)
(* sections is in memory, and where the loader is among their files.       *)
(***************************************************************************)
EXTENDS CdStage

Labels == {"away", "loop", "archive", "look", "limit", "next", "load", "cache", "lookCache",
           "endCache", "loadCache", "sync", "done", "wrong"}

\* The cells of a section that have come with p sectors, if it is not a later one, and
\* whether a file has.
Cells(l, i, p) == (p + 1 - First(l, i)) * Sector
Got(i) == Cells(stage, i, pos)
Here(i, k) == Offset(stage[i], k + 1) <= Got(i)
Done == {loaded[n] : n \in DOMAIN loaded}

\* The interrupt: the section that is read follows from the sectors that have come, and the
\* place of the next sector from both.
Reads(i) ==
  /\ First(stage, i) <= pos + 1 /\ pos + 1 < First(stage, i + 1)
  /\ left = Size(stage[i]) - Got(i)
  /\ IF stage[i].mode = "sound" THEN buffer = Elsewhere
                                ELSE buffer = Place(stage[i]) + Got(i) /\ end2 = buffer

Disk == /\ stage \in Layouts /\ InOrder(stage) /\ Apart(stage) /\ Fits(stage)
        /\ pos \in Nat /\ now \in 0 .. End /\ left \in Int
        /\ now = 0 <=> pos = 0
        /\ now \in 1 .. Len(stage) => Reads(now)
        /\ now = End => pos + 1 = First(stage, End)

\* What is loaded has come, and what has come of a file is in its place until the file is
\* loaded, of a cached one always.
InMemory ==
  /\ DOMAIN mem = 0 .. Memory - 1
  /\ \A f \in Done : Here(f[1], f[2])
  /\ \A f \in Files(stage) : f \notin Done \/ stage[f[1]].mode = "cache" =>
       \A c \in Offset(stage[f[1]], f[2]) .. Offset(stage[f[1]], f[2] + 1) - 1 :
         c < Got(f[1]) => mem[Place(stage[f[1]]) + c] = <<f[1], c>>

\* tag_start2 is of the last archive set up, when the ones before are begun.
Begun ==
  /\ \A i, j \in Archives(stage) : i < j /\ j <= now => <<i, 1>> \in Done
  /\ \A i \in Archives(stage) : i <= now /\ (\A j \in Archives(stage) : j <= now => j <= i)
       => start2 = Place(stage[i])

\* The next file is file k of the section of the tag, or of a later one.
Loaded(k) ==
  /\ loaded \in Seq(Files(stage))
  /\ \A n \in DOMAIN loaded : Before(loaded[n], <<tag, k>>)
  /\ \A f \in Files(stage) : Before(f, <<tag, k>>) => f \in Done
  /\ \A m, n \in DOMAIN loaded : m < n => Before(loaded[m], loaded[n])

InArchive(k) == /\ mark = 0 /\ tag \in Archives(stage)
                /\ current = Place(stage[tag]) + Offset(stage[tag], k)
                /\ remaining = Size(stage[tag]) - Offset(stage[tag], k)
InCache(k) == /\ mark = 1 /\ tag \in DOMAIN stage /\ stage[tag].mode = "cache"
              /\ current = Conf /\ file = k
Behind == \A i \in DOMAIN stage : stage[i].mode = "cache" => i < tag

FilesOf(i) == IF i \in DOMAIN stage THEN DOMAIN stage[i].files ELSE {1}
At(k) == \/ InArchive(k)
         \/ InCache(k)
         \/ mark = 1 /\ Behind /\ k = 1
         \/ mark = 2 /\ k = 1

\* Where the loader is: in a section that has begun to come, and at a file that is whole.
InLimit == now > tag \/ limit <= Place(stage[tag]) + Got(tag)

Where(k) ==
  /\ pc \in Labels \ {"wrong"}
  /\ tag <= now + 1 /\ (tag = 0 <=> now = 0) /\ (pc # "away" => tag > 0)
  /\ pc \in {"archive", "look", "limit", "next", "load"} => tag <= now /\ Mode(tag) = "archive"
  /\ pc \in {"look", "limit", "next", "load"} => mark = 0
  /\ pc = "limit" /\ ~reads => now > tag
  /\ pc \in {"next", "load"} => InLimit
  /\ pc = "load" => file = k /\ Here(tag, k)
  /\ pc \in {"cache", "lookCache", "endCache", "loadCache"} => tag <= now /\ Mode(tag) = "cache"
  /\ pc \in {"lookCache", "endCache", "loadCache"} => mark = 1
  /\ pc = "loadCache" => Here(tag, k)
  /\ pc \in {"sync", "done"} => Behind
  /\ pc = "done" => now = End

\* What is kept of the memory is up to the end of the cached files, which have all come.
Splits ==
  split # None => \A c \in DOMAIN stage : stage[c].mode = "cache" =>
                    c < now /\ split = Conf + Size(stage[c])

IInv == /\ TypeOK /\ Disk /\ InMemory /\ Begun /\ Splits
        /\ \E k \in FilesOf(tag) : Loaded(k) /\ At(k) /\ Where(k)
=============================================================================
