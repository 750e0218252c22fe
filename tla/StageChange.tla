---------------------------- MODULE StageChange ----------------------------
(***************************************************************************)
(* A frame of the game around its stream, and the way from one stage to the *)
(* next: game/gamed.c with the actors it has to wait for.  A frame is the   *)
(* turns of GV_ExecActorSystem in the order of the levels: the game over    *)
(* screen (DAEMON); the menus, gamed, the stream and its users (MANAGER);   *)
(* the loader and the canceller (ASSIST, PREV2, which the item menu does    *)
(* not pause); the actors of the stage (which every pause stops).  The disk *)
(* and the sound task step at any time, but the sound task answers a        *)
(* request before the next frame.                                           *)
(***************************************************************************)
EXTENDS StreamControl, FiniteSets

CONSTANTS Voices,        \* what the actors of a stage ask for with GM_VoxStream
          Demos,         \* ... and with GM_DemoStream
          Call,          \* the voice of a codec call
          GameOverVox,   \* the voice of the game over screen
          CancelDoes,    \* what the canceller's procedure does: "nothing" or "load"
          GameOverDelay, \* frames gamed counts before the player's actor is told
          MaxStreams, MaxLoads, MaxErrors   \* bounds

ASSUME StageAssumption ==
  /\ Voices \cup Demos \cup {Call, GameOverVox} \subseteq Streams
  /\ GameOverVox \in Waits
  /\ \A p \in WithProc : Does[p] \notin Voices \cup Demos \cup {Call, GameOverVox}
  /\ GameOverDelay \in Nat \ {0, 1}
  /\ MaxStreams \in Nat /\ MaxLoads \in Nat /\ MaxErrors \in Nat

VARIABLES turn,       \* whose turn it is in the frame
          gamed,      \* [status, killing_count]
          timer,      \* GM_GameOverTimer
          complete,   \* GM_LoadComplete
          pause,      \* the bits of GV_PauseLevel
          menu, over, cancel, loader, stage,
          errors, loads

vars == <<g, turn, gamed, timer, complete, pause, menu, over, cancel, loader, stage,
          errors, loads>>

Init ==
  /\ g = [state |-> 0, sub |-> 0, act |-> "none", proc |-> None, left |-> <<>>, due |-> 0,
          slot |-> None, task |-> 0, read |-> FALSE, stop |-> FALSE, end |-> TRUE,
          count |-> 0, vox |-> FALSE, over |-> FALSE, cutscene |-> FALSE, dead |-> FALSE,
          load |-> "none", sound |-> "off", subtitle |-> "none", demo |-> "none",
          asked |-> {}, runs |-> [s \in Streams |-> "no"]]
  /\ turn = "menus"
  /\ gamed = [status |-> "wait_load", killing |-> 0]
  /\ timer = 0 /\ complete = 0
  /\ pause = {} /\ menu = "closed" /\ over = "none" /\ cancel = "none"
  /\ loader = "reading" /\ stage = "none"
  /\ errors = 0 /\ loads = 0

PausesAll == pause # {}              \* GV_LEVEL_NORMAL
PausesSome == pause \cap {"stop", "err"} # {}   \* GV_LEVEL_STOP

\* A frame starts when the sound task has answered what the last one asked of it.
Turn(now, then) == turn = now /\ turn' = then
StartTurn(now, then) == Turn(now, then) /\ g.sound # "asked"

(*------------------------- DAEMON: game/over.c ---------------------------*)

\* The screen rises, plays its voice, then stops the game and asks the player.
OverAct ==
  /\ StartTurn("over", "menus") /\ over # "marked"
  /\ \/ UNCHANGED <<g, pause, over>>
     \/ /\ over = "rises" /\ "err" \notin pause
        /\ over' = "shown" /\ g' = GM_StreamPlayStart(g) /\ UNCHANGED pause
     \/ /\ over = "shown" /\ "err" \notin pause
        /\ over' = "asks" /\ pause' = pause \cup {"stop"} /\ UNCHANGED g
     \/ /\ over = "asks" /\ "err" \notin pause
        /\ over' = "leaves" /\ UNCHANGED <<g, pause>>
     \/ /\ over = "leaves" /\ "err" \notin pause /\ GM_StreamStatus(g) = -1
        /\ over' = "marked" /\ UNCHANGED <<g, pause>>
  /\ UNCHANGED <<gamed, timer, complete, menu, cancel, loader, stage, errors, loads>>

\* To continue in the same area needs no loading (GM_ContinueStart: 0xC0).
OverDie ==
  /\ StartTurn("over", "menus") /\ over = "marked"
  /\ over' = "none"
  /\ pause' = pause \ {"stop"}
  /\ \E l \in {"stage", "here"} : g' = [GM_StreamPlayStop(g) EXCEPT !.load = l]
  /\ timer' = 0
  /\ UNCHANGED <<gamed, complete, menu, cancel, loader, stage, errors, loads>>

(*--------------------- MANAGER: the menus, menu/*.c ----------------------*)

\* The modules of the menu run only in a stage, with no load asked for.
MenuRuns == "pause" \notin pause /\ complete > 0 /\ g.load = "none" /\ ~g.cutscene

\* STATE_MENU_OFF and STATE_RADIO_OFF from GM_GameOver to the next stage.
MenuOff == timer # 0 \/ g.over

OpenItems ==
  /\ menu = "closed" /\ ~MenuOff /\ ~g.vox
  /\ menu' = "items" /\ pause' = pause \cup {"menu"} /\ UNCHANGED g

CloseItems ==
  /\ menu = "items"
  /\ menu' = "closed" /\ pause' = pause \ {"menu"} /\ UNCHANGED g

OpenCodec ==
  /\ menu = "closed" /\ ~MenuOff /\ ~g.vox /\ pause = {}
  /\ menu' = "codec" /\ pause' = {"stop"} /\ g' = GM_StreamPlayStop(g)

CloseCodec ==
  /\ menu = "codec" /\ GM_StreamStatus(g) # 0
  /\ menu' = "closed" /\ pause' = pause \ {"stop"} /\ UNCHANGED g

SkipCall ==
  /\ menu = "codec" /\ g.state # 0
  /\ g' = GM_StreamPlayStop(g) /\ UNCHANGED <<menu, pause>>

Menus ==
  /\ StartTurn("menus", "gamed")
  /\ \/ UNCHANGED <<g, menu, pause>>
     \/ MenuRuns /\ (OpenItems \/ CloseItems \/ OpenCodec \/ CloseCodec \/ SkipCall)
  /\ UNCHANGED <<gamed, timer, complete, over, cancel, loader, stage, errors, loads>>

\* The task of the codec asks for its voice when the last one is over.
CodecCalls ==
  /\ menu = "codec" /\ Call \notin g.asked /\ GM_StreamStatus(g) = -1
  /\ g' = Ask(g, Call)
  /\ UNCHANGED <<turn, gamed, timer, complete, pause, menu, over, cancel, loader, stage,
                 errors, loads>>

(*------------------------- MANAGER: game/gamed.c -------------------------*)

Gamed(c, p) == /\ Turn("gamed", "stream") /\ g' = c /\ pause' = p
               /\ UNCHANGED <<menu, loader>>

\* The first thing in the turn: the mark of a disk error follows the disk.  Errors
\* are those of the frames of a change of stage, MaxErrors of them.
ReadErrors == {IF e THEN pause \cup {"err"} ELSE pause \ {"err"} :
                 e \in {b \in BOOLEAN : b => /\ errors < MaxErrors
                                             /\ g.load # "none"}}

CountErrors(p) == errors' = errors + (IF "err" \in p THEN 1 ELSE 0)

\* Mutant: the canceller is not among the actors that die.
DestroyStage ==
  /\ stage' = IF stage = "none" THEN "none" ELSE "marked"
  /\ UNCHANGED cancel

\* GV_DestroyActorSystem( GV_KILL_LEVEL_NORMAL ): all die in their next turn.
DestroyActors ==
  /\ stage' = IF stage = "none" THEN "none" ELSE "marked"
  /\ cancel' = IF cancel = "none" THEN "none" ELSE "marked"

\* The new stage runs its script when its data is there.
ExecScenario ==
  /\ gamed.status = "wait_load"
  /\ \E p \in ReadErrors :
       /\ CountErrors(p)
       /\ IF complete = 0
          THEN /\ Gamed(g, p) /\ UNCHANGED <<gamed, complete, stage>>
          ELSE /\ Gamed([g EXCEPT !.load = "none"], p)
               /\ complete' = 1 /\ stage' = "live"
               /\ gamed' = [gamed EXCEPT !.status = "working"]
  /\ UNCHANGED <<timer, over, cancel, loads>>

\* The screens of the pause button and of the game over, and the press that
\* stops a cutscene.
Press(c) == IF c.cutscene THEN {c, GM_StreamPlayStop(c)} ELSE {c}

Working ==
  /\ gamed.status = "working" /\ gamed.killing = 0 /\ timer = 0
  /\ g.load = "none" \/ "pause" \in pause
  /\ \E p \in ReadErrors, c \in Press(g) :
       /\ CountErrors(p)
       /\ \/ /\ ~g.vox /\ ~g.cutscene /\ p \ {"pause"} = {}
             /\ Gamed(c, IF "pause" \in p THEN {} ELSE {"pause"})
          \/ /\ Gamed(c, IF g.vox \/ g.cutscene THEN p \ {"pause"} ELSE p)
  /\ UNCHANGED <<gamed, timer, complete, over, cancel, stage, loads>>

\* GM_GameOver counts down; at 1 the screen waits for the stream to be over.
GameOverTime ==
  /\ gamed.status = "working" /\ gamed.killing = 0 /\ timer # 0
  /\ \E p \in ReadErrors, c \in Press(g) :
       /\ CountErrors(p)
       /\ \/ /\ timer = 1 /\ GM_StreamStatus(g) = -1
             /\ timer' = -1 /\ over' = "rises"
             /\ \E d \in Press([GM_VoxStream(g, GameOverVox) EXCEPT !.over = TRUE]) :
                  Gamed(d, p)
          \/ /\ timer = 1 /\ GM_StreamStatus(g) = 1
             /\ Gamed(GM_StreamPlayStop(c), p) /\ UNCHANGED <<timer, over>>
          \/ /\ timer = 1 /\ GM_StreamStatus(g) \notin {-1, 1}
             /\ Gamed(c, p) /\ UNCHANGED <<timer, over>>
          \/ /\ timer # 1
             /\ timer' = IF timer > 1 THEN timer - 1 ELSE timer
             /\ Gamed(c, p) /\ UNCHANGED over
  /\ UNCHANGED <<gamed, complete, cancel, stage, loads>>

\* A load is asked for: the actors are told to die and the stream to stop.
StartKilling ==
  /\ gamed.status = "working" /\ gamed.killing = 0 /\ timer = 0
  /\ g.load # "none" /\ "pause" \notin pause
  /\ \E p \in ReadErrors : CountErrors(p)
  /\ Gamed(GM_StreamPlayStop(g), pause \ {"err"})
  /\ DestroyActors
  /\ gamed' = [gamed EXCEPT !.killing = 3]
  /\ UNCHANGED <<timer, complete, over, loads>>

\* After three frames the stage is reset, if the stream and the menus are through.
Killing ==
  /\ gamed.killing > 0
  /\ \E p \in ReadErrors : CountErrors(p)
  /\ \/ gamed.killing > 1 /\ gamed' = [gamed EXCEPT !.killing = @ - 1]
     \/ /\ gamed.killing = 1 /\ UNCHANGED gamed
        /\ GM_StreamStatus(g) # -1 \/ pause \cap {"stop", "menu"} # {}
  /\ Gamed(g, pause \ {"err"})
  /\ UNCHANGED <<timer, complete, over, cancel, stage, loads>>

ResetStage ==
  /\ Turn("gamed", "stream")
  /\ gamed.killing = 1 /\ GM_StreamStatus(g) = -1 /\ pause \cap {"stop", "menu"} = {}
  /\ \E p \in ReadErrors : CountErrors(p)
  /\ pause' = pause \ {"err"}
  /\ gamed' = [status |-> "wait_load", killing |-> 0]
  /\ g' = [g EXCEPT !.vox = FALSE, !.over = FALSE, !.cutscene = FALSE, !.dead = FALSE]
  /\ timer' = 0
  /\ IF g.load = "stage" THEN complete' = 0 /\ loader' = "reading"
                         ELSE UNCHANGED <<complete, loader>>
  /\ loads' = loads + 1
  /\ UNCHANGED <<menu, over, cancel, stage>>

GamedAct == ExecScenario \/ Working \/ GameOverTime \/ StartKilling \/ Killing \/ ResetStage

(*---------------- MANAGER: the stream and its users ----------------------*)

Stream ==
  /\ Turn("stream", "prev")
  /\ g' \in DemoAct(SubtitleAct(StreamAct(g)))
  /\ UNCHANGED <<gamed, timer, complete, pause, menu, over, cancel, loader, stage,
                 errors, loads>>

(*-------------- ASSIST and PREV2: the loader, the canceller --------------*)

LoaderAct ==
  IF loader = "marked" THEN loader' = "none" /\ complete' = -1
  ELSE /\ loader' = IF loader = "read" THEN "marked" ELSE loader
       /\ UNCHANGED complete

\* A press takes the procedure off the stream and stops it; the canceller then
\* holds the pause of the menus until the stream is over, and runs its own.
CancelAct ==
  \/ cancel = "none" /\ UNCHANGED <<g, pause, cancel>>
  \/ cancel = "watch" /\ UNCHANGED <<g, pause, cancel>>
  \/ /\ cancel = "watch"
     /\ g' = GM_StreamPlayStop(GM_StreamCancelCallback(g))
     /\ pause' = pause \cup {"menu"} /\ cancel' = "fades"
  \/ /\ cancel = "fades" /\ UNCHANGED <<g, pause>>
     /\ cancel' \in {"fades", IF GM_StreamStatus(g) = -1 THEN "marked" ELSE "fades"}
  \/ /\ cancel = "marked" /\ cancel' = "none"
     /\ pause' = pause \ {"menu"}
     /\ g' = IF CancelDoes = "load" /\ g.load = "none" /\ ~g.dead
             THEN [g EXCEPT !.load = "stage"] ELSE g

Prev ==
  /\ Turn("prev", "actors")
  /\ IF PausesSome THEN UNCHANGED <<g, complete, pause, cancel, loader>>
                   ELSE LoaderAct /\ CancelAct
  /\ UNCHANGED <<gamed, timer, menu, over, stage, errors, loads>>

LoaderReads ==
  /\ loader = "reading" /\ loader' = "read"
  /\ UNCHANGED <<g, turn, gamed, timer, complete, pause, menu, over, cancel, stage,
                 errors, loads>>

(*-------------------- the actors of the stage ----------------------------*)

\* The streams a stage may still ask for.  A procedure that asks for a stream is
\* not superseded in the slot: GCL_ExecProc would come back to it for ever.
CanAsk(s) ==
  /\ s \notin g.asked /\ Cardinality(g.asked) < MaxStreams
  /\ g.slot \in WithProc => Does[g.slot] \notin Streams

AskVoice == \E s \in Voices : CanAsk(s) /\ g' = GM_VoxStream(g, s) /\ UNCHANGED <<cancel, timer>>

\* A demo comes with its canceller or without.
AskDemo == /\ \E s \in Demos : CanAsk(s) /\ g' = GM_DemoStream(g, s)
           /\ cancel' \in {cancel, IF cancel = "none" THEN "watch" ELSE cancel}
           /\ UNCHANGED timer

AskLoad == /\ g.load = "none" /\ loads < MaxLoads
           /\ g' = [g EXCEPT !.load = "stage"] /\ UNCHANGED <<cancel, timer>>

PlayWaiting == /\ g.state \in {1, 2} /\ g' = GM_StreamPlayStart(g)
               /\ UNCHANGED <<cancel, timer>>

StopStream == /\ g.state # 0 /\ g' = GM_StreamPlayStop(g) /\ UNCHANGED <<cancel, timer>>

AskGameOver == /\ timer = 0 /\ loads < MaxLoads /\ GameOverVox \notin g.asked
               /\ timer' = GameOverDelay /\ UNCHANGED <<g, cancel>>

\* The actor of the player: dead at 2, then the stream is told to stop and the
\* timer set to 1 once nothing plays.
PlayerDies == /\ timer = 2 /\ timer' = -1
              /\ g' = [g EXCEPT !.dead = TRUE] /\ UNCHANGED cancel

PlayerIsDead == /\ timer = -1 /\ g.dead /\ over = "none" /\ GM_StreamStatus(g) # 2
                /\ timer' = 1 /\ g' = GM_StreamPlayStop(g) /\ UNCHANGED cancel

StageAct ==
  \/ PlayerDies
  \/ /\ timer # 2
     /\ \/ AskVoice \/ AskDemo \/ AskLoad \/ PlayWaiting \/ StopStream \/ AskGameOver
        \/ PlayerIsDead \/ UNCHANGED <<g, cancel, timer>>

\* Those of the stage's actors that run behind the item menu (voicesys.c, PREV2).
BehindMenus == PlayWaiting \/ StopStream \/ UNCHANGED <<g, cancel, timer>>

Actors ==
  /\ Turn("actors", IF over = "none" THEN "menus" ELSE "over")
  /\ \/ stage = "live" /\ ~PausesAll /\ StageAct /\ UNCHANGED stage
     \/ stage = "live" /\ PausesAll /\ ~PausesSome /\ BehindMenus /\ UNCHANGED stage
     \/ stage = "marked" /\ ~PausesAll /\ stage' = "none" /\ UNCHANGED <<g, cancel, timer>>
     \/ /\ stage = "none" \/ PausesSome \/ (stage = "marked" /\ PausesAll)
        /\ UNCHANGED <<g, cancel, timer, stage>>
  /\ UNCHANGED <<gamed, complete, pause, menu, over, loader, errors, loads>>

(*-------------------------------------------------------------------------*)

Disk == /\ Filled \/ Due \/ DemoBlock \/ (g.state = 3 /\ ReadEnd)
        /\ UNCHANGED <<turn, gamed, timer, complete, pause, menu, over, cancel, loader,
                       stage, errors, loads>>

\* A short file is read to its end before it plays, a long one is not.
ReadAhead == /\ g.state \in {1, 2} /\ ReadEnd
             /\ UNCHANGED <<turn, gamed, timer, complete, pause, menu, over, cancel, loader,
                            stage, errors, loads>>

Sound == /\ SoundTask
         /\ UNCHANGED <<turn, gamed, timer, complete, pause, menu, over, cancel, loader,
                        stage, errors, loads>>

Frame == OverAct \/ OverDie \/ Menus \/ GamedAct \/ Stream \/ Prev \/ Actors

Next == Frame \/ CodecCalls \/ LoaderReads \/ Disk \/ ReadAhead \/ Sound

Spec == Init /\ [][Next]_vars

\* Frames go on, the disk and the sound task go on; a file is read to its end only
\* while its stream plays.  The player and the actors of the stage need do nothing.
FairSpec == /\ Spec
            /\ WF_vars(Frame) /\ WF_vars(LoaderReads) /\ WF_vars(Sound) /\ WF_vars(Disk)

(*------------------------------ properties -------------------------------*)

\* Those who hold the ring: the sound task, the subtitles and the demo.
OpenUsers == Cardinality({u \in {"sound", "subtitle", "demo"} :
               CASE u = "sound"    -> g.sound \in {"opened", "playing", "closing"}
                 [] u = "subtitle" -> g.subtitle # "none"
                 [] u = "demo"     -> g.demo # "none"})

TypeOK ==
  /\ g.state \in 0..3 /\ g.sub \in 0..2 /\ g.task \in -1..1
  /\ g.act \in {"none", "play", "drain", "marked"}
  /\ g.proc \in WithProc \cup {None} /\ g.slot \in Streams \cup {None}
  /\ g.load \in {"none", "stage", "here"}
  /\ gamed \in [status : {"wait_load", "working"}, killing : 0..3]
  /\ timer \in -1..GameOverDelay /\ complete \in -1..1
  /\ pause \subseteq {"stop", "pause", "menu", "err"}
  /\ menu \in {"closed", "items", "codec"}
  /\ over \in {"none", "rises", "shown", "asks", "leaves", "marked"}
  /\ cancel \in {"none", "watch", "fades", "marked"}

\* The count of FS_StreamOpen and FS_StreamClose is the number of those who hold
\* the ring, and no stream starts to fill it (FS_StreamTaskStart, which sets the
\* count to 0) while one of the last stream still holds a block of it.
RingFree == TypeOK /\ g.count = OpenUsers

\* The procedure given with a request is owed to exactly the one stream that plays
\* or waits in the slot, and is run or cancelled once: not lost, not run again.
CallbackOnce ==
  \A s \in WithProc : /\ g.runs[s] # "twice"
                      /\ g.runs[s] = "held" <=> s \in {g.proc, g.slot}

\* gamed resets the memory of a stage (GM_ResetMemory) when nothing of the stage
\* lives in it: no stream, playing or in the slot, no user of the ring, no sound about to
\* open it, no actor of the stage, and no pause that would hold the next stage.
ResetSafe ==
  gamed.status = "wait_load" =>
    /\ g.state = 0 /\ OpenUsers = 0 /\ g.sound = "off" /\ g.slot = None
    /\ stage = "none" /\ cancel = "none" /\ over = "none"
    /\ pause \subseteq {"err"}

\* The three ways in which a change of stage waits for ever.  A load that a stream's
\* procedure asks for under an open menu: gamed waits for the pause of the menu, and
\* the menus, which alone would end it, do not run while a load is asked for.
Held == \/ menu = "items" /\ "menu" \in pause
        \/ menu = "codec"

\* A demo stopped before its thread had its first block: it polls a stopped stream.
DemoLost == g.demo \in {"first", "block"} /\ g.stop

\* A stream to be played when told, pending at StartKilling: the stop took the stream
\* before it, and those who would tell it to play are dead.
NeverTold == g.state = 2 /\ g.sub = 1

\* A change of stage that was begun ends with the next stage at work, but for the
\* three ways above: no other order of the stop, the users of the ring, the menus,
\* the canceller and the procedures leaves gamed in its wait.
StageCompletes ==
  gamed.killing > 0 ~> \/ gamed.killing = 0 /\ gamed.status = "working"
                       \/ Held \/ DemoLost \/ NeverTold
=============================================================================
