--------------------------- MODULE StageChangeInv ---------------------------
(***************************************************************************)
(* The inductive invariant of StageChange: what holds of the record of the *)
(* stream between two calls, and of the frame around it at each turn.      *)
(***************************************************************************)
EXTENDS StageChange

Kind == {"sound", "subtitle", "demo"}
ActState == {"none", "play", "drain", "marked"}
SoundState == {"off", "asked", "opened", "playing", "closing"}
SubtitleState == {"none", "waits", "shown", "marked"}
DemoState == {"none", "first", "block", "running", "last", "marked"}
LoadState == {"none", "stage", "here"}
Runs == [Streams -> {"no", "held", "settled", "twice"}]
Flow == [state : 0 .. 3, sub : 0 .. 2, act : ActState,
         proc : WithProc \cup {None}, left : Seq(Kind), due : Nat,
         slot : Streams \cup {None}, task : -1 .. 1, read : BOOLEAN, stop : BOOLEAN, end : BOOLEAN,
         count : Int, vox : BOOLEAN, over : BOOLEAN, cutscene : BOOLEAN, dead : BOOLEAN,
         load : LoadState,
         sound : SoundState,
         subtitle : SubtitleState,
         demo : DemoState,
         asked : SUBSET Streams, runs : Runs]

\* The users of the ring, and whether there is none, nor a sound about to be one.
Opened(b) == IF b THEN 1 ELSE 0
Users(c) == Opened(c.sound \in {"opened", "playing", "closing"}) + Opened(c.subtitle # "none")
            + Opened(c.demo # "none")
Silent(c) == c.sound = "off" /\ c.subtitle = "none" /\ c.demo = "none"

\* The actor of the stream, and who may use the ring at which of its states.
Streaming(c) ==
  /\ c.count = Users(c)
  /\ c.state = 0 <=> c.act = "none"
  /\ c.state \in {1, 2} => c.act \in {"play", "marked"}
  /\ c.state # 3 \/ c.act # "play" => Silent(c)

\* The headers that are still to come: one demo at most, and none when it runs; none at
\* all once the subtitles leave, or will leave, without a stop.
Coming(c) ==
  /\ c.due <= Len(c.left)
  /\ c.state # 3 => c.due = 0
  /\ \A i, j \in 1 .. Len(c.left) : c.left[i] = "demo" /\ c.left[j] = "demo" => i = j
  /\ \A i \in 1 .. Len(c.left) : c.left[i] = "demo" => c.demo = "none"
  /\ ~c.stop /\ (c.subtitle = "marked" \/ (c.subtitle = "shown" /\ c.sound # "playing"))
       => c.left = <<>>

\* The procedures: one that is owed is that of the stream that plays or of the one in
\* the slot; one that has not run has not asked for its stream.
Owes(c) ==
  /\ \A s \in WithProc : c.runs[s] # "twice" /\ (c.runs[s] = "held" <=> s \in {c.proc, c.slot})
  /\ c.slot \in WithProc => c.slot # c.proc
  /\ \A s \in WithProc : s \notin c.asked => c.runs[s] = "no"
  /\ \A p \in WithProc : Does[p] \in c.asked => c.runs[p] = "settled"

Owing(c) == Owes(c) /\ (c.state = 0 => c.proc = None /\ c.slot = None)

StreamOK(c) == c \in Flow /\ Streaming(c) /\ Coming(c) /\ Owing(c)

\* The frame: a sound that was asked for has been answered before the next turn of the stream.
Turns ==
  /\ turn \in {"over", "menus", "gamed", "stream", "prev", "actors"}
  /\ turn \in {"gamed", "stream"} => g.sound # "asked"

\* Who holds which pause.
Pausing ==
  /\ over # "none" => timer = -1 /\ gamed = [status |-> "working", killing |-> 0]
  /\ menu = "codec" => "stop" \in pause /\ timer = 0

\* While gamed counts down, nobody adds a pause, and the actors die in their first turn
\* that no pause stops.
Dying ==
  gamed.killing > 0 =>
    /\ gamed.status = "working" /\ g.load # "none" /\ timer = 0
    /\ pause \cap {"pause", "err"} = {}
    /\ stage # "live" /\ cancel \in {"none", "marked"}
    /\ cancel # "none" /\ "stop" \notin pause => gamed.killing = 3 /\ turn \in {"stream", "prev"}
    /\ stage # "none" /\ pause = {} => gamed.killing = 3 /\ turn \in {"stream", "prev", "actors"}

\* Between two stages nothing of a stage lives, and the menus do not run.
Loading ==
  gamed.status = "wait_load" =>
    /\ gamed.killing = 0 /\ (g.load # "none" \/ complete <= 0)
    /\ g.state = 0 /\ stage = "none" /\ cancel = "none" /\ over = "none"
    /\ pause \subseteq {"err"}

IInv == /\ TypeOK /\ stage \in {"none", "live", "marked"}
        /\ StreamOK(g) /\ Turns /\ Pausing /\ Dying /\ Loading
=============================================================================
