------------------------------ MODULE CdStage ------------------------------
(***************************************************************************)
(* libfs/cdstage.c: the files of a stage, read by the interrupt of the     *)
(* disk and loaded by the game out of the same memory while the read goes  *)
(* on.  A stage is a table of sections: archives (modes 'n' and 'r'), which*)
(* are loaded and forgotten, the cached files (mode 'c'), which stay where *)
(* they are, and what the sound takes (mode 's').  A short archive is put  *)
(* Far behind the place of the cached files, a long one at that place.     *)
(*                                                                         *)
(* Nothing makes the interrupt wait for the game.  What the code relies on *)
(* is stated here: how far the disk runs ahead (Lead), and how the sections*)
(* of a stage lie on the disk (InOrder, Apart).  Memory is counted in      *)
(* cells, Sector to a sector; an address is relative to the memory taken   *)
(* for the stage.  Sectors come in order and once (DiskReader).            *)
(***************************************************************************)
EXTENDS Integers, Sequences, FiniteSets

CONSTANTS
  Sector,     \* cells of a sector
  Conf,       \* cells of the table of sections, which comes in the first sector
  Far,        \* 0x19000
  Short,      \* 0x13FFF
  Memory,     \* cells of GV_GetMaxFreeMemory
  Lead,       \* assumed: sectors that come at most while a file waits to be loaded
  Layouts     \* stages: sequences of sections [mode, files]; the sizes of the files

ASSUME StageAssumption ==
  /\ {Sector, Conf, Memory} \subseteq Nat \ {0} /\ {Far, Short, Lead} \subseteq Nat
  /\ Conf <= Sector
  /\ \A l \in Layouts : l \in Seq([mode : {"archive", "cache", "sound"},
                                  files : Seq(Nat \ {0}) \ {<<>>}])

VARIABLES
  stage,       \* the one that is loaded
  pos,         \* sectors that have come
  mem,         \* which cell of which section is there
  now,         \* tag_start1 - 1: the section being read; 0 for the table
  buffer,      \* task->buffer, or Elsewhere
  left,        \* size: cells of the section that are still to come
  start2,      \* tag_start2: where the last archive begins
  end2,        \* tag_end2: the end of what has come of the section
  tag, file,   \* info->tag: the section, and the file of the cache, to load next
  mark,        \* field_28: 2, 0 in an archive, 1 in the cache
  current,     \* current_ptr
  remaining,   \* cells of the archive not loaded yet
  pc, reads, limit,   \* where the loader is; whether its section is being read; its limit
  loaded,      \* the files loaded, in order
  split        \* what GV_SplitMemory keeps, or None

diskVars == <<pos, mem, now, buffer, left, start2, end2>>
loadVars == <<tag, file, mark, current, remaining, pc, reads, limit, loaded, split>>
vars == <<stage, diskVars, loadVars>>

None == -1
Elsewhere == -2
Blank == <<0, 0>>

(*------------------------- what is on the disk ---------------------------*)

\* The sums of the members of a sequence before each of them and after the last.
Sums(from, sizes) ==
  LET sum[n \in 1 .. Len(sizes) + 1] == IF n = 1 THEN from ELSE sum[n - 1] + sizes[n - 1]
  IN sum

\* Where file k of a section begins; the one after the last is its end.
Offset(s, k) == Sums(0, s.files)[k]
Size(s) == Offset(s, Len(s.files) + 1)
Sectors(s) == (Size(s) + Sector - 1) \div Sector

\* The number of the first sector of a section; the table is sector 1.
First(l, i) == Sums(2, [j \in DOMAIN l |-> Sectors(l[j])])[i]
\* The sector with the last cell of a file.
Comes(l, i, k) == First(l, i) + (Offset(l[i], k + 1) - 1) \div Sector

\* Where SetupNextFile puts a section, and which cells its sectors cover there.
Place(s) == CASE s.mode = "sound"   -> Elsewhere
              [] s.mode = "cache"   -> Conf
              [] s.mode = "archive" -> IF Size(s) <= Short THEN Conf + Far ELSE Conf

Files(l) == UNION {{i} \X (1 .. Len(l[i].files)) : i \in {j \in DOMAIN l : l[j].mode # "sound"}}
Archives(l) == {i \in DOMAIN l : l[i].mode = "archive"}

\* Assumed of a stage: it has one cache, behind all archives.
InOrder(l) == \E c \in DOMAIN l : /\ l[c].mode = "cache"
                                  /\ \A i \in DOMAIN l \ {c} : l[i].mode # "cache"
                                  /\ \A i \in Archives(l) : i < c

\* Assumed of a stage: Lead sectors lie between the first file of an archive and the
\* setup of the next, which moves tag_start2, and between a file and what comes over it.
Apart(l) ==
  /\ \A i, j \in Archives(l) : i < j => First(l, j) - 1 - Comes(l, i, 1) > Lead
  /\ \A i \in Archives(l), j \in DOMAIN l : i < j /\ l[j].mode # "sound" =>
       \A k \in 1 .. Len(l[i].files), n \in 0 .. Sectors(l[j]) - 1 :
         LET from == Place(l[i]) + Offset(l[i], k)
             to   == Place(l[j]) + n * Sector
         IN from < to + Sector /\ to < from + l[i].files[k] => First(l, j) + n - Comes(l, i, k) > Lead

Fits(l) == \A i \in DOMAIN l : Place(l[i]) + Sectors(l[i]) * Sector <= Memory

(*------------------------------- the disk --------------------------------*)

Init ==
  /\ stage \in {l \in Layouts : InOrder(l) /\ Apart(l) /\ Fits(l)}
  /\ pos = 0 /\ mem = [a \in 0 .. Memory - 1 |-> Blank] /\ now = 0 /\ buffer = 0
  /\ left = Sector /\ start2 = 0 /\ end2 = 0
  /\ tag = 0 /\ file = 1 /\ mark = 2 /\ current = 0 /\ remaining = 0
  /\ pc = "away" /\ reads = FALSE /\ limit = 0 /\ loaded = <<>> /\ split = None

End == Len(stage) + 1          \* the tag of mode 0
Reading == now < End

\* The read ends at the tag of mode 0; else the section's place and size are set.
SetupNextFile(i) ==
  IF i = End THEN UNCHANGED <<buffer, left, start2, end2>>
  ELSE LET s == stage[i] IN
       /\ buffer' = Place(s) /\ left' = Size(s)
       /\ start2' = IF s.mode = "archive" THEN Place(s) ELSE start2
       /\ end2' = IF s.mode = "sound" THEN end2 ELSE Place(s)

\* A file that has come is loaded before more than Lead sectors came after it.
InTime == \A f \in Files(stage) :
  Comes(stage, f[1], f[2]) <= pos /\ pos + 1 - Comes(stage, f[1], f[2]) > Lead
    => \E n \in DOMAIN loaded : loaded[n] = f

\* StageConfigReadyCallback, in the first sector.
ReadConfig ==
  /\ pos = 0
  /\ pos' = 1 /\ now' = 1 /\ tag' = 1
  /\ SetupNextFile(1)
  /\ UNCHANGED <<stage, mem, file, mark, current, remaining, pc, reads, limit, loaded, split>>

\* faulty: at the end of the table the section is not counted
NowAtEndStays(i) == IF i = End THEN now ELSE i

NowAtEnd(i) == i

\* The interrupt: a sector goes to its place, then StageFileReadyCallback.
ReadSector ==
  /\ pos > 0 /\ Reading /\ InTime
  /\ pos' = pos + 1
  /\ LET off == Size(stage[now]) - left IN
     mem' = IF buffer = Elsewhere THEN mem
            ELSE [a \in DOMAIN mem |->
                    IF a \in buffer .. buffer + Sector - 1 THEN <<now, off + a - buffer>> ELSE mem[a]]
  /\ IF left - Sector <= 0 THEN now' = NowAtEnd(now + 1) /\ SetupNextFile(now + 1)
     ELSE /\ left' = left - Sector
          /\ buffer' = IF buffer = Elsewhere THEN buffer ELSE buffer + Sector
          \* of a sound the end is an address of its own, or stays
          /\ end2' \in IF buffer = Elsewhere THEN {end2, 0, Memory} ELSE {buffer + Sector}
          /\ UNCHANGED <<now, start2>>
  /\ UNCHANGED <<stage, loadVars>>

(*------------------------------ the loader -------------------------------*)

Goto(label) == pc' = label
Mode(i) == IF i = End THEN "none" ELSE stage[i].mode
unlessTag == <<current, remaining, reads, limit, loaded, split>>

\* FS_LoadStageSync, once a frame.
LoadStageSync ==
  /\ pc = "away" /\ tag > 0 /\ Goto("loop")
  /\ UNCHANGED <<tag, file, mark, unlessTag>>

\* LoadStageFiles: sections that have come, or come.
LoadStageFiles ==
  /\ pc = "loop"
  /\ \/ tag > now /\ Goto("away") /\ UNCHANGED tag
     \/ tag <= now /\ Mode(tag) = "sound"   /\ tag' = tag + 1 /\ UNCHANGED pc
     \/ tag <= now /\ Mode(tag) = "archive" /\ Goto("archive") /\ UNCHANGED tag
     \/ tag <= now /\ Mode(tag) = "cache"   /\ Goto("cache")   /\ UNCHANGED tag
     \/ tag <= now /\ Mode(tag) = "none"    /\ Goto("sync")    /\ UNCHANGED tag
  /\ UNCHANGED <<file, mark, unlessTag>>

\* LoadDataArchives: a new archive begins where the last one set up does.
BeginArchive ==
  /\ pc = "archive" /\ Goto("look")
  /\ IF mark # 0 THEN mark' = 0 /\ current' = start2 /\ remaining' = Size(stage[tag])
                 ELSE UNCHANGED <<mark, current, remaining>>
  /\ UNCHANGED <<tag, file, reads, limit, loaded, split>>

\* faulty: all of the archive is taken to be there
LookNot == FALSE

Look == tag >= now

LookAtSection ==
  /\ pc = "look" /\ Goto("limit")
  /\ reads' = Look
  /\ UNCHANGED <<tag, file, mark, current, remaining, limit, loaded, split>>

TakeLimit ==
  /\ pc = "limit" /\ Goto("next")
  /\ limit' = IF reads THEN end2 ELSE Memory
  /\ UNCHANGED <<tag, file, mark, current, remaining, reads, loaded, split>>

\* The head of a file, as it is found in memory, tells its size.
Heads(i) == {<<i, Offset(stage[i], k)>> : k \in 1 .. Len(stage[i].files)}
FileOf(i, cell) == CHOOSE k \in 1 .. Len(stage[i].files) : Offset(stage[i], k) = cell[2]

NextInArchive ==
  /\ pc = "next"
  /\ \/ limit < current + 1 /\ Goto("away") /\ UNCHANGED file
     \/ /\ limit >= current + 1 /\ mem[current] \notin Heads(tag)
        /\ Goto("wrong") /\ UNCHANGED file
     \/ /\ limit >= current + 1 /\ mem[current] \in Heads(tag)
        /\ LET k == FileOf(tag, mem[current]) IN
           IF current + stage[tag].files[k] > limit THEN Goto("away") /\ UNCHANGED file
           ELSE Goto("load") /\ file' = k
  /\ UNCHANGED <<tag, mark, unlessTag>>

\* GV_LoadInit has returned.
LoadedFromArchive ==
  /\ pc = "load"
  /\ loaded' = Append(loaded, <<tag, file>>)
  /\ LET size == stage[tag].files[file] IN
     /\ remaining' = remaining - size
     /\ IF remaining - size <= 0
        THEN Goto("loop") /\ mark' = 2 /\ tag' = tag + 1 /\ UNCHANGED current
        ELSE Goto("next") /\ current' = current + size /\ UNCHANGED <<mark, tag>>
  /\ UNCHANGED <<file, reads, limit, split>>

\* LoadCacheSection.
BeginCache ==
  /\ pc = "cache" /\ Goto("lookCache")
  /\ IF mark # 1 THEN mark' = 1 /\ current' = Conf /\ file' = 1
                 ELSE UNCHANGED <<mark, current, file>>
  /\ UNCHANGED <<tag, remaining, reads, limit, loaded, split>>

LookAtCache ==
  /\ pc = "lookCache"
  /\ Goto(IF Mode(now) # "cache" THEN "loadCache" ELSE "endCache")
  /\ UNCHANGED <<tag, file, mark, unlessTag>>

Bound == current + Offset(stage[tag], file + 1)

EndOfCache ==
  /\ pc = "endCache"
  /\ Goto(IF end2 >= Bound THEN "loadCache" ELSE "away")
  /\ UNCHANGED <<tag, file, mark, unlessTag>>

\* faulty: the last file is cut off
KeptShort == Conf + Offset(stage[tag], file)

Kept == Conf + Offset(stage[tag], file + 1)

LoadedFromCache ==
  /\ pc = "loadCache"
  /\ loaded' = Append(loaded, <<tag, file>>)
  /\ file' = file + 1
  /\ IF file = Len(stage[tag].files)
     THEN Goto("sync") /\ tag' = tag + 1 /\ split' = Kept
     ELSE Goto("lookCache") /\ UNCHANGED <<tag, split>>
  /\ UNCHANGED <<mark, current, remaining, reads, limit>>

\* All files are loaded: CDBIOS_ReadSync says whether the read is over as well.
Synced ==
  /\ pc = "sync" /\ Goto(IF Reading THEN "away" ELSE "done")
  /\ UNCHANGED <<tag, file, mark, unlessTag>>

Loader == /\ \/ LoadStageSync \/ LoadStageFiles
             \/ BeginArchive \/ LookAtSection \/ TakeLimit \/ NextInArchive \/ LoadedFromArchive
             \/ BeginCache \/ LookAtCache \/ EndOfCache \/ LoadedFromCache \/ Synced
          /\ UNCHANGED <<stage, diskVars>>

Next == ReadConfig \/ ReadSector \/ Loader

\* The disk goes on, as far as the loader is in time; the loader has its turn each frame.
Spec == Init /\ [][Next]_vars /\ WF_vars(ReadConfig) /\ WF_vars(ReadSector) /\ WF_vars(Loader)

(*------------------------------ properties -------------------------------*)

TypeOK ==
  /\ now \in 0 .. End /\ tag \in 0 .. End /\ pos \in Nat
  /\ buffer \in {Elsewhere} \cup 0 .. Memory /\ {start2, end2, limit} \subseteq 0 .. Memory
  /\ mark \in 0 .. 2 /\ current \in 0 .. Memory - 1 /\ split \in {None} \cup 0 .. Memory

\* A file that is there whole, from address a on.
Whole(i, k, a) ==
  \A n \in 0 .. stage[i].files[k] - 1 : mem[a + n] = <<i, Offset(stage[i], k) + n>>

\* Whenever a file is given to its loader, and until the loader returns, the file is in
\* memory from its first cell to its last, although the read goes on in the same memory
\* and moves the marks the game finds its files by; no head is looked for elsewhere.  A
\* cached file stays so for good.
LoadsWhole ==
  /\ TypeOK
  /\ pc # "wrong"
  /\ pc = "load" => Whole(tag, file, current)
  /\ pc = "loadCache" => Whole(tag, file, current + Offset(stage[tag], file))
  /\ \A n \in DOMAIN loaded : LET f == loaded[n] IN
       stage[f[1]].mode = "cache" => Whole(f[1], f[2], Conf + Offset(stage[f[1]], f[2]))

Before(f, h) == f[1] < h[1] \/ (f[1] = h[1] /\ f[2] < h[2])

\* Files are loaded in the order of the stage, none left out and none twice; when the game
\* is told that the load is over all of them are.  What is kept of the memory holds the
\* cached files, and from then on nothing is read to what was given back.
EndsWhole ==
  /\ \A n \in DOMAIN loaded : \A f \in Files(stage) :
       Before(f, loaded[n]) <=> \E m \in 1 .. n - 1 : loaded[m] = f
  /\ pc = "done" => Len(loaded) = Cardinality(Files(stage)) /\ ~Reading
  /\ split # None =>
       /\ \A f \in Files(stage) : stage[f[1]].mode = "cache" =>
            Conf + Offset(stage[f[1]], f[2] + 1) <= split
       /\ buffer = Elsewhere \/ ~Reading

\* The load ends.
LoadEnds == <>(pc = "done")
=============================================================================
