--------------------------- MODULE StreamControl ---------------------------
(***************************************************************************)
(* The one stream of the game and those who use it: game/strctrl.c (the     *)
(* actor that plays a stream and the slot for the next one), the state   *)
(* word of libfs/stream.c, the subtitles (game/jimctrl.c), the demo thread       *)
(* (kojo/demothrd.c) and the sound task (sound/sd_main.c, sd_str.c).  The   *)
(* bytes in the ring are the subject of FsStream; here a stream is the      *)
(* sequence of its headers, each of which starts a user of the stream.      *)
(*                                                                         *)
(* The functions call each other (a stop inside a request, a procedure of   *)
(* the script inside Die), so what they share is one record, g, and a       *)
(* function of the code is an operator from the record to the record.       *)
(***************************************************************************)
EXTENDS Integers, Sequences

CONSTANTS Streams,      \* the requests the scripts and actors can make, each once
          None,
          Headers,      \* per request, the kinds of header in the file
          Waits,        \* requested with 0x40000000: loaded, then played when told
          WithProc,     \* requested with a procedure to run at the end
          Does          \* per procedure: "nothing", "load" or the stream it asks for

ASSUME StreamsAssumption ==
  /\ None \notin Streams
  /\ Waits \subseteq Streams /\ WithProc \subseteq Streams \ Waits
  /\ Headers \in [Streams -> Seq({"sound", "subtitle", "demo"})]
  /\ \A s \in WithProc : Does[s] \in {"nothing", "load"} \cup Streams

\* A file has one sound and one demo.  One procedure asks for a stream: a second one,
\* in the slot when the first one asks, would come back to GCL_ExecProc for ever.
ASSUME FilesAssumption ==
  /\ \A s \in Streams : \A i, j \in DOMAIN Headers[s] :
       Headers[s][i] = Headers[s][j] /\ Headers[s][i] # "subtitle" => i = j
  /\ \A p, q \in WithProc : Does[p] \in Streams /\ Does[q] \in Streams => p = q

VARIABLE g

(*--------------------------- libfs/stream.c ------------------------------*)

FS_StreamInit(c) == [c EXCEPT !.count = 0]

FS_StreamTaskStart(c) ==
  [c EXCEPT !.end = FALSE, !.stop = FALSE, !.task = -1, !.read = TRUE]

FS_StreamStop(c) == [c EXCEPT !.stop = TRUE, !.end = TRUE, !.task = 0]

FS_StreamOpen(c) == [c EXCEPT !.count = @ + 1]

FS_StreamClose(c) == [c EXCEPT !.count = @ - 1]

FS_StreamIsEnd(c) == c.count = 0

\* What the first call after the first read, or after the end, does to the state.
FS_StreamSync(c) ==
  [c EXCEPT !.task = CASE c.end \/ c.stop -> 0
                       [] ~c.end /\ ~c.stop /\ c.task = -1 /\ ~c.read -> 1
                       [] OTHER -> @]

(*--------------------------- game/strctrl.c ------------------------------*)

GM_StreamStatus(c) == IF c.state = 0 /\ c.task # 0 THEN 2 ELSE c.state - 1

GM_StreamPlayStart(c) == IF c.state \in {1, 2} THEN [c EXCEPT !.sub = 0] ELSE c

\* A stream that does not play yet is destroyed, a playing one winds up.
GM_StreamPlayStop(c) ==
  [FS_StreamStop(c) EXCEPT !.act = IF c.state \in {1, 2} THEN "marked" ELSE @]

GM_StreamCancelCallback(c) ==
  IF c.proc = None THEN c ELSE [c EXCEPT !.proc = None, !.runs[c.proc] = "settled"]

\* A procedure is refused while a stage is asked for and when the player is dead.
Refused(c) == c.load # "none" \/ c.dead

GCL_ExecProc(c, p) ==
  [c EXCEPT !.runs[p] = IF @ = "held" THEN "settled" ELSE "twice",
            !.load = IF ~Refused(c) /\ Does[p] = "load" THEN "stage" ELSE @]

\* Mutant: the procedure of the request that is put out of the slot is forgotten.
PendForgets(c, s) == [GM_StreamPlayStop(c) EXCEPT !.slot = s]

\* The slot holds one request: a second one runs the procedure of the first.
Pend(c, s) ==
  LET d == IF c.slot \in WithProc THEN GCL_ExecProc(c, c.slot) ELSE c
  IN  [GM_StreamPlayStop(d) EXCEPT !.slot = s]

StartStream(c, s) ==
  FS_StreamTaskStart(
    [FS_StreamInit(c) EXCEPT
       !.act = "play", !.state = 1, !.sub = IF s \in Waits THEN 1 ELSE 0,
       !.proc = IF s \in WithProc THEN s ELSE None,
       !.left = Headers[s], !.due = 0])

NewStreamControl(c, s) == IF c.state # 0 THEN Pend(c, s) ELSE StartStream(c, s)

\* A request as it is made: its procedure is now owed.
Ask(c, s) ==
  NewStreamControl([c EXCEPT !.runs[s] = IF s \in WithProc THEN "held" ELSE @,
                             !.asked = @ \cup {s}], s)

GM_VoxStream(c, s) ==
  IF c.over THEN [c EXCEPT !.asked = @ \cup {s}]
  ELSE Ask([c EXCEPT !.vox = @ \/ s \notin Waits], s)

\* DemoCmd sets STATE_DEMO and asks.
GM_DemoStream(c, s) == Ask([c EXCEPT !.vox = TRUE, !.cutscene = TRUE], s)

\* The procedure of the stream that ends, and the stream it may ask for.
EndProc(c, p) ==
  LET d == GCL_ExecProc(c, p) IN
  IF ~Refused(c) /\ Does[p] \in Streams THEN GM_VoxStream(d, Does[p]) ELSE d

StreamDie(c) ==
  LET d == [c EXCEPT !.state = 0, !.act = "none", !.vox = FALSE, !.proc = None,
                        !.left = <<>>, !.due = 0]
      e == IF c.proc = None THEN d ELSE EndProc(d, c.proc)
  IN  IF e.slot = None THEN e ELSE [NewStreamControl(e, e.slot) EXCEPT !.slot = None]

\* The headers start the sound, the subtitles, if they are not there, and the demo.
Begin(c, headers) ==
  LET subtitle == "subtitle" \in headers /\ c.subtitle \notin {"waits", "shown"}
      demo     == "demo" \in headers
  IN  [c EXCEPT !.sound    = IF "sound" \in headers /\ @ = "off" THEN "asked" ELSE @,
                !.subtitle = IF subtitle THEN "waits" ELSE @,
                !.demo     = IF demo THEN "first" ELSE @,
                !.count    = @ + (IF subtitle THEN 1 ELSE 0) + (IF demo THEN 1 ELSE 0)]

\* The headers whose time has come, all in one call, unless the stream is stopped.
BeginDue(c) ==
  IF c.stop \/ c.due = 0 THEN c
  ELSE [Begin(c, {c.left[i] : i \in 1 .. c.due}) EXCEPT
          !.left = SubSeq(@, c.due + 1, Len(@)), !.due = 0, !.sub = 2]

\* Mutant: the users of the ring are not waited for.
WindUpNow(c) ==
  LET d == [c EXCEPT !.sub = IF @ = 2 /\ ~FS_StreamIsEnd(c) THEN 0 ELSE @]
  IN  IF (d.sub = 0 \/ d.stop) /\ FS_StreamSync(d).task = 0
      THEN [d EXCEPT !.act = "drain", !.task = 0] ELSE d

\* Once a user of the last header is there, the end is when no user is left.
WindUp(c) ==
  LET d == [c EXCEPT !.sub = IF @ = 2 /\ ~FS_StreamIsEnd(c) THEN 0 ELSE @]
  IN  IF (d.sub = 0 \/ d.stop) /\ FS_StreamIsEnd(d) /\ FS_StreamSync(d).task = 0
      THEN [d EXCEPT !.act = "drain", !.task = 0] ELSE d

Play(c) ==
  CASE c.state = 1 /\ c.task < 0 -> c
    [] c.state = 3               -> WindUp(BeginDue(c))
    [] OTHER -> IF c.sub = 0 THEN [c EXCEPT !.state = 3, !.vox = TRUE, !.sub = 1]
                             ELSE [c EXCEPT !.state = 2]

\* The stream actor in its turn.
StreamAct(c) ==
  CASE c.act = "none"   -> c
    [] c.act = "play"   -> Play(FS_StreamSync(c))
    [] c.act = "drain"  -> IF c.task = 0 THEN [c EXCEPT !.act = "marked"] ELSE c
    [] c.act = "marked" -> StreamDie(c)

(*---------------------- the users: their actors' turns -------------------*)

\* Mutant: subtitles that were not shown yet do not see that the stream is stopped.
SubtitleActBlind(c) ==
  CASE c.subtitle = "none"   -> c
    [] c.subtitle = "marked" -> [FS_StreamClose(c) EXCEPT !.subtitle = "none"]
    [] c.subtitle = "shown" /\ c.sound # "playing" -> [c EXCEPT !.subtitle = "marked"]
    [] c.subtitle = "waits" /\ c.sound = "playing" -> [c EXCEPT !.subtitle = "shown"]
    [] OTHER -> c

\* The subtitles follow the sound and leave with it.
SubtitleAct(c) ==
  CASE c.subtitle = "none"   -> c
    [] c.subtitle = "marked" -> [FS_StreamClose(c) EXCEPT !.subtitle = "none"]
    [] c.subtitle \in {"waits", "shown"} ->
         [c EXCEPT !.subtitle = CASE c.stop -> "marked"
                                  [] ~c.stop /\ c.sound = "playing" -> "shown"
                                  [] OTHER -> IF @ = "shown" THEN "marked" ELSE @]

\* The demo waits for its first block, which a stopped stream never gives it.
DemoAct(c) ==
  CASE c.demo \in {"none", "first"} -> {c}
    [] c.demo = "block" -> IF c.stop THEN {c}
                           ELSE {[c EXCEPT !.demo = d] : d \in {"running", "marked"}}
    [] c.demo = "running" ->
         IF c.stop THEN {[c EXCEPT !.demo = "marked"]}
         ELSE {c, [FS_StreamStop(c) EXCEPT !.demo = "marked"]}
    [] c.demo = "last"   -> {[c EXCEPT !.demo = "marked"]}
    [] c.demo = "marked" ->
         {[FS_StreamClose(c) EXCEPT !.demo = "none", !.cutscene = FALSE]}

(*------------------- the disk and the sound task, any time ---------------*)

\* The first read has filled the ring: the reader rests.
Filled == g.read /\ ~g.stop /\ g' = [g EXCEPT !.read = FALSE]

\* The reader comes to the end mark of the file.
ReadEnd == ~g.read /\ ~g.stop /\ ~g.end /\ g' = [g EXCEPT !.end = TRUE]

\* The time of the next header comes.
Due == g.state = 3 /\ ~g.stop /\ g.due < Len(g.left) /\ g' = [g EXCEPT !.due = @ + 1]

\* The demo's first block is in the ring, or its last one was taken from it.
DemoBlock == ~g.stop /\ \/ g.demo = "first" /\ g' = [g EXCEPT !.demo = "block"]
                        \/ g.demo = "running" /\ g.end /\ g' = [g EXCEPT !.demo = "last"]

SoundOpens == g.sound = "asked" /\ g' = [FS_StreamOpen(g) EXCEPT !.sound = "opened"]

\* A stopped stream gives no header: the task closes it at once.
SoundStarts ==
  /\ g.sound = "opened"
  /\ g' = IF g.stop THEN [FS_StreamClose(g) EXCEPT !.sound = "off"]
                    ELSE [g EXCEPT !.sound = "playing"]

\* The data is played to its end, or the stream was stopped: str_status becomes 0.
\* A sound outlasts a frame: the stream and the subtitles have had a turn with it.
SoundEnds ==
  /\ g.sound = "playing"
  /\ g.stop \/ (g.end /\ g.left = <<>> /\ g.sub # 2 /\ g.subtitle # "waits")
  /\ g' = [g EXCEPT !.sound = "closing"]

SoundCloses == g.sound = "closing" /\ g' = [FS_StreamClose(g) EXCEPT !.sound = "off"]

SoundTask == SoundOpens \/ SoundStarts \/ SoundEnds \/ SoundCloses

=============================================================================
