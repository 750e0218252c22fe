------------------------- MODULE StageChangeProofs -------------------------
(***************************************************************************)
(* StageChange for every game: its streams, procedures, headers and bounds. *)
(* First what each function of the stream makes of the record, then each    *)
(* actor's turn.                                                            *)
(***************************************************************************)
EXTENDS StageChangeInv, FiniteSetTheorems, TLAPS

\* What the parts of StreamOK read: the users of the ring, the headers, the procedures.
Ring(c)  == <<c.count, c.sound, c.subtitle, c.demo>>
Ahead(c) == <<c.left, c.due>>
Owed(c)  == <<c.proc, c.slot, c.runs, c.asked>>

\* The actor of a stream that is stopped, the procedure of a request, what is owed
\* once the one in the slot is settled.
StopAct(c)  == IF c.state \in {1, 2} THEN "marked" ELSE c.act
ProcOf(s)   == IF s \in WithProc THEN s ELSE None
SlotRuns(c) == IF c.slot \in WithProc THEN [c.runs EXCEPT ![c.slot] = "settled"] ELSE c.runs

(*------------------------ functions of the record ------------------------*)

LEMMA Whole ==
  ASSUME NEW c, NEW d, StreamOK(c), d \in Flow, d.state = c.state, d.act = c.act,
         Ring(d) = Ring(c), Ahead(d) = Ahead(c), Owed(d) = Owed(c), c.stop => d.stop
  PROVE  StreamOK(d)
<1>1. /\ d.count = c.count /\ d.sound = c.sound /\ d.subtitle = c.subtitle /\ d.demo = c.demo
      /\ d.left = c.left /\ d.due = c.due /\ d.proc = c.proc /\ d.slot = c.slot
      /\ d.runs = c.runs /\ d.asked = c.asked
  BY DEF Ring, Ahead, Owed
<1>2. Streaming(d)
  BY <1>1 DEF StreamOK, Streaming, Users, Silent
<1>3. Coming(d)
  BY <1>1 DEF StreamOK, Coming
<1>4. Owing(d)
  BY <1>1 DEF StreamOK, Owing, Owes
<1> QED BY <1>2, <1>3, <1>4 DEF StreamOK

\* Which values each function may give to the fields it sets.
LEMMA Constants ==
  /\ TRUE \in BOOLEAN /\ FALSE \in BOOLEAN /\ 0 \in -1 .. 1 /\ -1 \in -1 .. 1 /\ 1 \in -1 .. 1
  /\ 0 \in 0 .. 3 /\ 1 \in 0 .. 3 /\ 2 \in 0 .. 3 /\ 3 \in 0 .. 3
  /\ 0 \in 0 .. 2 /\ 1 \in 0 .. 2 /\ 2 \in 0 .. 2 /\ 0 \in Nat /\ 0 \in Int
  OBVIOUS

LEMMA FlowStop ==
  ASSUME NEW c \in Flow, NEW v \in BOOLEAN, NEW w \in BOOLEAN, NEW t \in -1 .. 1
  PROVE  [c EXCEPT !.stop = v, !.end = w, !.task = t] \in Flow
  BY Zenon DEF Flow

LEMMA FlowAct ==
  ASSUME NEW c \in Flow, NEW a \in ActState
  PROVE  [c EXCEPT !.act = a] \in Flow
  BY Zenon DEF Flow

LEMMA FlowSub ==
  ASSUME NEW c \in Flow, NEW u \in 0 .. 2
  PROVE  [c EXCEPT !.sub = u] \in Flow
  BY Zenon DEF Flow

LEMMA FlowExec ==
  ASSUME NEW c \in Flow, NEW r \in Runs,
         NEW l \in LoadState
  PROVE  [c EXCEPT !.runs = r, !.load = l] \in Flow
  BY Zenon DEF Flow

LEMMA FlowRuns ==
  ASSUME NEW c \in Flow, NEW r \in Runs,
         NEW p \in WithProc \cup {None}
  PROVE  [c EXCEPT !.proc = p, !.runs = r] \in Flow
  BY Zenon DEF Flow

LEMMA FlowSlot ==
  ASSUME NEW c \in Flow, NEW s \in Streams \cup {None}
  PROVE  [c EXCEPT !.slot = s] \in Flow
  BY Zenon DEF Flow

LEMMA FlowCount ==
  ASSUME NEW c \in Flow, NEW n \in Int
  PROVE  [c EXCEPT !.count = n] \in Flow
  BY Zenon DEF Flow

LEMMA FlowTask ==
  ASSUME NEW c \in Flow, NEW v \in BOOLEAN, NEW w \in BOOLEAN, NEW t \in -1 .. 1,
         NEW r \in BOOLEAN
  PROVE  [c EXCEPT !.end = w, !.stop = v, !.task = t, !.read = r] \in Flow
  BY Zenon DEF Flow

LEMMA FlowPlay ==
  ASSUME NEW c \in Flow, NEW a \in ActState, NEW t \in 0 .. 3,
         NEW u \in 0 .. 2, NEW p \in WithProc \cup {None}, NEW l \in Seq(Kind), NEW n \in Nat
  PROVE  [c EXCEPT !.act = a, !.state = t, !.sub = u, !.proc = p, !.left = l, !.due = n] \in Flow
  BY Zenon DEF Flow

LEMMA FlowAsked ==
  ASSUME NEW c \in Flow, NEW r \in Runs,
         NEW a \in SUBSET Streams
  PROVE  [c EXCEPT !.runs = r, !.asked = a] \in Flow
  BY Zenon DEF Flow

LEMMA FlowVox ==
  ASSUME NEW c \in Flow, NEW v \in BOOLEAN, NEW w \in BOOLEAN
  PROVE  [c EXCEPT !.vox = v] \in Flow /\ [c EXCEPT !.vox = v, !.cutscene = w] \in Flow
  BY Zenon DEF Flow

LEMMA FlowAskedOnly ==
  ASSUME NEW c \in Flow, NEW a \in SUBSET Streams
  PROVE  [c EXCEPT !.asked = a] \in Flow
  BY Zenon DEF Flow

LEMMA FlowBegin ==
  ASSUME NEW c \in Flow, NEW a \in SoundState, NEW b \in SubtitleState, NEW m \in DemoState,
         NEW n \in Int
  PROVE  [c EXCEPT !.sound = a, !.subtitle = b, !.demo = m, !.count = n] \in Flow
  BY Zenon DEF Flow

LEMMA FlowLeft ==
  ASSUME NEW c \in Flow, NEW l \in Seq(Kind), NEW n \in Nat, NEW u \in 0 .. 2
  PROVE  [c EXCEPT !.left = l, !.due = n, !.sub = u] \in Flow
  BY Zenon DEF Flow

LEMMA FlowSync ==
  ASSUME NEW c \in Flow, NEW t \in -1 .. 1
  PROVE  [c EXCEPT !.task = t] \in Flow
  BY Zenon DEF Flow

LEMMA FlowDrain ==
  ASSUME NEW c \in Flow, NEW a \in ActState, NEW t \in -1 .. 1
  PROVE  [c EXCEPT !.act = a, !.task = t] \in Flow
  BY Zenon DEF Flow

LEMMA FlowState ==
  ASSUME NEW c \in Flow, NEW t \in 0 .. 3, NEW v \in BOOLEAN, NEW u \in 0 .. 2
  PROVE  [c EXCEPT !.state = t] \in Flow /\ [c EXCEPT !.state = t, !.vox = v, !.sub = u] \in Flow
  BY Zenon DEF Flow

LEMMA FlowLoad ==
  ASSUME NEW c \in Flow, NEW l \in LoadState
  PROVE  [c EXCEPT !.load = l] \in Flow
  BY Zenon DEF Flow

LEMMA FlowOver ==
  ASSUME NEW c \in Flow, NEW v \in BOOLEAN
  PROVE  [c EXCEPT !.over = v] \in Flow /\ [c EXCEPT !.dead = v] \in Flow
  BY Zenon DEF Flow

LEMMA FlowReset ==
  ASSUME NEW c \in Flow, NEW v \in BOOLEAN, NEW w \in BOOLEAN, NEW x \in BOOLEAN,
         NEW y \in BOOLEAN
  PROVE  [c EXCEPT !.vox = v, !.over = w, !.cutscene = x, !.dead = y] \in Flow
  BY Zenon DEF Flow

LEMMA FlowReader ==
  ASSUME NEW c \in Flow, NEW v \in BOOLEAN, NEW n \in Nat
  PROVE  [c EXCEPT !.read = v] \in Flow /\ [c EXCEPT !.end = v] \in Flow /\ [c EXCEPT !.due = n] \in Flow
  BY Zenon DEF Flow

LEMMA FlowSound ==
  ASSUME NEW c \in Flow, NEW a \in SoundState
  PROVE  [c EXCEPT !.sound = a] \in Flow
  BY Zenon DEF Flow

LEMMA FlowSubtitle ==
  ASSUME NEW c \in Flow, NEW a \in SubtitleState
  PROVE  [c EXCEPT !.subtitle = a] \in Flow
  BY Zenon DEF Flow

LEMMA FlowDemo ==
  ASSUME NEW c \in Flow, NEW a \in DemoState
  PROVE  [c EXCEPT !.demo = a] \in Flow
  BY Zenon DEF Flow

LEMMA FlowCut ==
  ASSUME NEW c \in Flow, NEW a \in DemoState, NEW v \in BOOLEAN
  PROVE  [c EXCEPT !.demo = a, !.cutscene = v] \in Flow
  BY Zenon DEF Flow

LEMMA FlowDie ==
  ASSUME NEW c \in Flow, NEW t \in 0 .. 3, NEW a \in ActState,
         NEW v \in BOOLEAN, NEW p \in WithProc \cup {None}, NEW l \in Seq(Kind), NEW n \in Nat
  PROVE  [c EXCEPT !.state = t, !.act = a, !.vox = v, !.proc = p, !.left = l, !.due = n] \in Flow
  BY Zenon DEF Flow

\* A stop leaves the users of the ring, the headers and the procedures alone.
LEMMA PlayStop ==
  ASSUME NEW c \in Flow, NEW d, d = GM_StreamPlayStop(c)
  PROVE  /\ d \in Flow /\ d.state = c.state /\ d.stop
         /\ d.act = StopAct(c)
         /\ Ring(d) = Ring(c) /\ Ahead(d) = Ahead(c) /\ Owed(d) = Owed(c)
         /\ d.load = c.load /\ d.sound = c.sound /\ d.slot = c.slot /\ d.asked = c.asked
<1> DEFINE e == FS_StreamStop(c)
           a == StopAct(c)
<1>1. e \in Flow
  BY Constants, FlowStop, Zenon DEF FS_StreamStop
<1>2. /\ e.state = c.state /\ e.act = c.act /\ e.stop /\ e.load = c.load
      /\ e.sound = c.sound /\ e.slot = c.slot /\ e.asked = c.asked
      /\ e.count = c.count /\ e.subtitle = c.subtitle /\ e.demo = c.demo
      /\ e.left = c.left /\ e.due = c.due /\ e.proc = c.proc /\ e.runs = c.runs
  BY SMT DEF FS_StreamStop, Flow
<1>3. a \in ActState
  BY SMT DEF Flow, ActState, StopAct
<1>4. d = [e EXCEPT !.act = a]
  BY <1>2, SMT DEF GM_StreamPlayStop, StopAct
<1> HIDE DEF e, a
<1>5. d \in Flow
  BY <1>1, <1>3, <1>4, FlowAct, Zenon
<1>6. /\ d.act = a /\ d.state = e.state /\ d.stop = e.stop /\ d.load = e.load
      /\ d.sound = e.sound /\ d.slot = e.slot /\ d.asked = e.asked
      /\ d.count = e.count /\ d.subtitle = e.subtitle /\ d.demo = e.demo
      /\ d.left = e.left /\ d.due = e.due /\ d.proc = e.proc /\ d.runs = e.runs
  BY <1>1, <1>4, SMT DEF Flow
<1>7. Ring(d) = Ring(c) /\ Ahead(d) = Ahead(c) /\ Owed(d) = Owed(c)
  BY <1>2, <1>6 DEF Ring, Ahead, Owed
<1> QED BY <1>2, <1>5, <1>6, <1>7 DEF a

\* A stop of a stream that does not play yet marks its actor.
LEMMA Stopped ==
  ASSUME NEW c, NEW d, Streaming(c), Coming(c), d.state = c.state, d.stop,
         d.act = StopAct(c),
         Ring(d) = Ring(c), Ahead(d) = Ahead(c)
  PROVE  Streaming(d) /\ Coming(d)
<1>1. /\ d.count = c.count /\ d.sound = c.sound /\ d.subtitle = c.subtitle
      /\ d.demo = c.demo /\ d.left = c.left /\ d.due = c.due
  BY DEF Ring, Ahead
<1>2. Coming(d)
  BY <1>1 DEF Coming
<1>3. CASE c.state \notin {1, 2}
  <2>1. d.act = c.act
    BY <1>3 DEF StopAct
  <2> QED BY <1>1, <1>2, <2>1 DEF Streaming, Users, Silent
<1>4. CASE c.state \in {1, 2}
  <2>1. d.act = "marked" /\ c.state # 0 /\ c.state # 3
    BY <1>4 DEF StopAct
  <2> QED BY <1>1, <1>2, <2>1 DEF Streaming, Users, Silent
<1> QED BY <1>3, <1>4

LEMMA PlayStopOK ==
  ASSUME NEW c, StreamOK(c), NEW d, d = GM_StreamPlayStop(c)
  PROVE  StreamOK(d) /\ d.load = c.load /\ d.sound = c.sound
<1>1. c \in Flow
  BY DEF StreamOK
<1>2. /\ d \in Flow /\ d.state = c.state /\ d.stop
      /\ d.act = StopAct(c)
      /\ Ring(d) = Ring(c) /\ Ahead(d) = Ahead(c) /\ Owed(d) = Owed(c)
      /\ d.load = c.load /\ d.sound = c.sound
  BY <1>1, PlayStop
<1>3. Streaming(d) /\ Coming(d)
  BY <1>2, Stopped DEF StreamOK
<1>4. d.proc = c.proc /\ d.slot = c.slot /\ d.runs = c.runs /\ d.asked = c.asked
  BY <1>2 DEF Owed
<1>5. Owing(d)
  BY <1>2, <1>4 DEF StreamOK, Owing, Owes
<1> QED BY <1>2, <1>3, <1>5 DEF StreamOK

LEMMA PlayStartOK ==
  ASSUME NEW c, StreamOK(c), NEW d, d = GM_StreamPlayStart(c)
  PROVE  StreamOK(d) /\ d.load = c.load /\ d.sound = c.sound
<1>1. c \in Flow
  BY DEF StreamOK
<1>2. CASE d = c
  BY <1>2
<1>3. CASE d = [c EXCEPT !.sub = 0]
  <2>1. d \in Flow
    BY <1>1, <1>3, Constants, FlowSub, Zenon
  <2>2. /\ d.state = c.state /\ d.act = c.act /\ d.stop = c.stop /\ d.load = c.load
        /\ d.sound = c.sound /\ Ring(d) = Ring(c) /\ Ahead(d) = Ahead(c) /\ Owed(d) = Owed(c)
    BY <1>1, <1>3, SMT DEF Flow, Ring, Ahead, Owed
  <2> QED BY <2>1, <2>2, Whole
<1> QED BY <1>2, <1>3 DEF GM_StreamPlayStart

\* To take the procedure off the stream settles it.
LEMMA CancelOK ==
  ASSUME NEW c, StreamOK(c), NEW d, d = GM_StreamCancelCallback(c)
  PROVE  StreamOK(d) /\ d.load = c.load /\ d.sound = c.sound
<1>1. c \in Flow /\ c.proc \in WithProc \cup {None} /\ Owing(c)
  BY DEF StreamOK, Flow
<1>2. CASE c.proc = None
  BY <1>2 DEF GM_StreamCancelCallback
<1>3. CASE c.proc # None
  <2> DEFINE r == [c.runs EXCEPT ![c.proc] = "settled"]
  <2>1. c.runs \in Runs /\ c.proc \in WithProc
        /\ c.proc \in Streams
    BY <1>1, <1>3, StreamsAssumption, SMT DEF Flow
  <2>2. r \in Runs
    BY <2>1 DEF Runs
  <2>3. d = [c EXCEPT !.proc = None, !.runs = r]
    BY <1>3, SMT DEF GM_StreamCancelCallback
  <2>4. r[c.proc] = "settled" /\ \A s \in Streams : s # c.proc => r[s] = c.runs[s]
    BY <2>1 DEF Runs
  <2> HIDE DEF r
  <2>5. d \in Flow
    <3>1. None \in WithProc \cup {None}
      OBVIOUS
    <3> QED BY <1>1, <2>2, <2>3, <3>1, FlowRuns
  <2>6. /\ d.state = c.state /\ d.act = c.act /\ d.stop = c.stop /\ d.load = c.load
        /\ d.sound = c.sound /\ d.count = c.count /\ d.subtitle = c.subtitle
        /\ d.demo = c.demo /\ d.left = c.left /\ d.due = c.due
        /\ d.proc = None /\ d.runs = r /\ d.slot = c.slot /\ d.asked = c.asked
    BY <1>1, <2>3, SMT DEF Flow
  <2>7. Streaming(d) /\ Coming(d)
    BY <2>6 DEF StreamOK, Streaming, Coming, Users, Silent
  <2>8. Owing(d)
    <3>1. c.runs[c.proc] = "held" /\ c.slot # c.proc /\ None \notin WithProc
          /\ WithProc \subseteq Streams
      BY <1>1, <2>1, StreamsAssumption DEF Owing, Owes
    <3>2. \A s \in WithProc : d.runs[s] # "twice" /\ (d.runs[s] = "held" <=> s \in {d.proc, d.slot})
      <4> SUFFICES ASSUME NEW s \in WithProc
                   PROVE  d.runs[s] # "twice" /\ (d.runs[s] = "held" <=> s \in {d.proc, d.slot})
        OBVIOUS
      <4>1. c.runs[s] # "twice" /\ (c.runs[s] = "held" <=> s \in {c.proc, c.slot})
        BY <1>1 DEF Owing, Owes
      <4>2. d.runs[s] = IF s = c.proc THEN "settled" ELSE c.runs[s]
        BY <2>4, <2>6, <3>1
      <4> QED BY <2>6, <3>1, <4>1, <4>2
    <3>3. \A s \in WithProc : s \notin d.asked => d.runs[s] = "no"
      BY <1>1, <2>1, <2>4, <2>6, <3>1 DEF Owing, Owes
    <3>4. \A p \in WithProc : Does[p] \in d.asked => d.runs[p] = "settled"
      BY <1>1, <2>4, <2>6, <3>1 DEF Owing, Owes
    <3> QED BY <1>1, <2>6, <3>1, <3>2, <3>3, <3>4 DEF Owing, Owes
  <2> QED BY <2>5, <2>6, <2>7, <2>8 DEF StreamOK
<1> QED BY <1>2, <1>3

(*------------------------ requests and procedures ------------------------*)

\* A procedure that is owed is settled when it runs; a load that is asked for stays.
LEMMA ExecProc ==
  ASSUME NEW c \in Flow, NEW p \in WithProc, c.runs[p] = "held", NEW d, d = GCL_ExecProc(c, p)
  PROVE  /\ d \in Flow /\ d.state = c.state /\ d.act = c.act /\ d.stop = c.stop
         /\ Ring(d) = Ring(c) /\ Ahead(d) = Ahead(c)
         /\ d.sound = c.sound /\ d.proc = c.proc /\ d.slot = c.slot /\ d.asked = c.asked
         /\ d.runs = [c.runs EXCEPT ![p] = "settled"]
         /\ d.over = c.over /\ (c.load # "none" => d.load = c.load)
<1> DEFINE r == [c.runs EXCEPT ![p] = "settled"]
           l == IF ~Refused(c) /\ Does[p] = "load" THEN "stage" ELSE c.load
<1>1. c.runs \in Runs /\ p \in Streams
      /\ c.load \in LoadState
  BY StreamsAssumption, SMT DEF Flow
<1>2. r \in Runs /\ l \in LoadState
  BY <1>1 DEF Runs, LoadState
<1>3. d = [c EXCEPT !.runs = r, !.load = l]
  BY SMT DEF GCL_ExecProc
<1>4. c.load # "none" => l = c.load
  BY DEF Refused
<1> HIDE DEF r, l
<1>5. d \in Flow
  <2>1. [c EXCEPT !.runs = r, !.load = l] \in Flow
    BY <1>2, FlowExec
  <2> QED BY <1>3, <2>1
<1>6. /\ d.state = c.state /\ d.act = c.act /\ d.stop = c.stop
      /\ Ring(d) = Ring(c) /\ Ahead(d) = Ahead(c)
      /\ d.sound = c.sound /\ d.proc = c.proc /\ d.slot = c.slot /\ d.asked = c.asked
      /\ d.runs = r /\ d.over = c.over /\ d.load = l
  BY <1>3, SMT DEF Flow, Ring, Ahead
<1> QED BY <1>4, <1>5, <1>6 DEF r

\* The slot gives way to a request; the procedure it held is run.
LEMMA Pended ==
  ASSUME NEW c \in Flow, NEW s \in Streams, NEW d, d = Pend(c, s),
         c.slot \in WithProc => c.runs[c.slot] = "held"
  PROVE  /\ d \in Flow /\ d.state = c.state /\ d.stop
         /\ d.act = StopAct(c)
         /\ Ring(d) = Ring(c) /\ Ahead(d) = Ahead(c) /\ d.sound = c.sound
         /\ d.proc = c.proc /\ d.slot = s /\ d.asked = c.asked
         /\ d.runs = SlotRuns(c)
         /\ c.load # "none" => d.load = c.load
<1> DEFINE e == IF c.slot \in WithProc THEN GCL_ExecProc(c, c.slot) ELSE c
           f == GM_StreamPlayStop(e)
<1>1. /\ e \in Flow /\ e.state = c.state /\ e.act = c.act /\ e.stop = c.stop
      /\ Ring(e) = Ring(c) /\ Ahead(e) = Ahead(c)
      /\ e.sound = c.sound /\ e.proc = c.proc /\ e.asked = c.asked
      /\ e.runs = SlotRuns(c)
      /\ (c.load # "none" => e.load = c.load)
  <2>1. CASE c.slot \in WithProc
    <3>1. e = GCL_ExecProc(c, c.slot) /\ c.runs[c.slot] = "held"
      BY <2>1
    <3> HIDE DEF e
    <3> QED BY <2>1, <3>1, ExecProc DEF SlotRuns
  <2>2. CASE c.slot \notin WithProc
    BY <2>2 DEF SlotRuns
  <2> QED BY <2>1, <2>2
<1> HIDE DEF e
<1>2. /\ f \in Flow /\ f.state = e.state /\ f.stop
      /\ f.act = StopAct(e)
      /\ Ring(f) = Ring(e) /\ Ahead(f) = Ahead(e) /\ Owed(f) = Owed(e)
      /\ f.load = e.load /\ f.sound = e.sound /\ f.slot = e.slot /\ f.asked = e.asked
  BY <1>1, PlayStop
<1>3. d = [f EXCEPT !.slot = s]
  BY DEF Pend, e
<1> HIDE DEF f
<1>4. d \in Flow
  <2>1. s \in Streams \cup {None}
    OBVIOUS
  <2> QED BY <1>2, <1>3, <2>1, FlowSlot, Zenon
<1>5. /\ d.state = f.state /\ d.act = f.act /\ d.stop = f.stop /\ d.load = f.load
      /\ Ring(d) = Ring(f) /\ Ahead(d) = Ahead(f)
      /\ d.sound = f.sound /\ d.proc = f.proc /\ d.slot = s /\ d.asked = f.asked
      /\ d.runs = f.runs
  <2>1. f \in Flow
    BY <1>2
  <2> QED BY <2>1, <1>3, SMT DEF Flow, Ring, Ahead
<1>6. f.proc = e.proc /\ f.runs = e.runs
  BY <1>2 DEF Owed
<1>7. StopAct(e) = StopAct(c) /\ SlotRuns(c) = e.runs
  BY <1>1 DEF StopAct
<1> QED BY <1>1, <1>2, <1>4, <1>5, <1>6, <1>7

\* A stream starts.
LEMMA Started ==
  ASSUME NEW c \in Flow, NEW s \in Streams, NEW d, d = StartStream(c, s)
  PROVE  /\ d \in Flow /\ d.state = 1 /\ d.act = "play" /\ ~d.stop /\ d.count = 0
         /\ d.sound = c.sound /\ d.subtitle = c.subtitle /\ d.demo = c.demo
         /\ d.left = Headers[s] /\ d.due = 0 /\ d.runs = c.runs /\ d.asked = c.asked
         /\ d.proc = ProcOf(s) /\ d.slot = c.slot
         /\ d.load = c.load
<1> DEFINE e == FS_StreamInit(c)
           u == IF s \in Waits THEN 1 ELSE 0
           p == ProcOf(s)
           l == Headers[s]
           f == [e EXCEPT !.act = "play", !.state = 1, !.sub = u, !.proc = p, !.left = l, !.due = 0]
<1>1. e \in Flow
  BY Constants, FlowCount, Zenon DEF FS_StreamInit
<1>2. u \in 0 .. 2 /\ p \in WithProc \cup {None} /\ l \in Seq(Kind)
      /\ "play" \in ActState
  BY StreamsAssumption, SMT DEF Kind, ActState, ProcOf
<1>3. /\ e.sound = c.sound /\ e.subtitle = c.subtitle /\ e.demo = c.demo /\ e.count = 0
      /\ e.runs = c.runs /\ e.asked = c.asked /\ e.slot = c.slot /\ e.load = c.load
  BY SMT DEF FS_StreamInit, Flow
<1>4. d = FS_StreamTaskStart(f)
  BY DEF StartStream, ProcOf
<1> HIDE DEF e, u, p, l
<1>5. f \in Flow
  BY <1>1, <1>2, Constants, FlowPlay, Zenon
<1>6. /\ f.sound = e.sound /\ f.subtitle = e.subtitle /\ f.demo = e.demo
      /\ f.count = e.count /\ f.runs = e.runs /\ f.asked = e.asked /\ f.slot = e.slot
      /\ f.load = e.load /\ f.state = 1 /\ f.act = "play" /\ f.left = l /\ f.due = 0
      /\ f.proc = p
  BY <1>1, SMT DEF Flow
<1> HIDE DEF f
<1>7. d \in Flow
  BY <1>4, <1>5, Constants, FlowTask, Zenon DEF FS_StreamTaskStart
<1>8. /\ d.sound = f.sound /\ d.subtitle = f.subtitle /\ d.demo = f.demo
      /\ d.count = f.count /\ d.runs = f.runs /\ d.asked = f.asked /\ d.slot = f.slot
      /\ d.load = f.load /\ d.state = f.state /\ d.act = f.act /\ d.left = f.left /\ d.due = f.due
      /\ d.proc = f.proc /\ ~d.stop
  BY <1>4, <1>5, SMT DEF FS_StreamTaskStart, Flow
<1> QED BY <1>3, <1>6, <1>7, <1>8 DEF l, p

\* Where nothing played, the stream that starts finds a ring that nobody uses.
LEMMA StartedRing ==
  ASSUME NEW c, c.state = 0, Streaming(c), NEW s \in Streams, NEW d,
         d.state = 1, d.act = "play", ~d.stop, d.count = 0,
         d.sound = c.sound, d.subtitle = c.subtitle, d.demo = c.demo,
         d.left = Headers[s], d.due = 0
  PROVE  Streaming(d) /\ Coming(d)
<1>1. Silent(c)
  BY DEF Streaming
<1>2. Streaming(d)
  BY <1>1 DEF Streaming, Users, Silent, Opened
<1>3. Headers[s] \in Seq(Kind)
  BY StreamsAssumption DEF Kind
<1>4. DOMAIN Headers[s] = 1 .. Len(Headers[s]) /\ Len(Headers[s]) \in Nat
  BY <1>3
<1>5. \A i, j \in 1 .. Len(d.left) : d.left[i] = "demo" /\ d.left[j] = "demo" => i = j
  BY <1>4, FilesAssumption
<1>6. Coming(d)
  BY <1>1, <1>4, <1>5 DEF Coming, Silent
<1> QED BY <1>2, <1>6

\* A request that was not made before: its procedure is owed from now on.
LEMMA Asked ==
  ASSUME NEW c \in Flow, Streaming(c), Coming(c), Owes(c), c.state = 0 => c.proc = None,
         NEW s \in Streams, s \in WithProc => s \notin c.asked,
         \A t \in WithProc : Does[t] = s => c.runs[t] = "settled",
         NEW d, d = Ask(c, s)
  PROVE  /\ d \in Flow /\ Streaming(d) /\ Coming(d) /\ Owes(d) /\ d.state # 0
         /\ d.sound = c.sound /\ (c.load # "none" => d.load = c.load)
         /\ c.state = 0 => d.slot = c.slot
<1> DEFINE r == [c.runs EXCEPT ![s] = IF s \in WithProc THEN "held" ELSE @]
           a == c.asked \cup {s}
           e == [c EXCEPT !.runs = r, !.asked = a]
<1>1. c.runs \in Runs /\ c.asked \in SUBSET Streams /\ WithProc \subseteq Streams
      /\ None \notin WithProc /\ None \notin Streams /\ c.slot \in Streams \cup {None}
  BY StreamsAssumption, SMT DEF Flow
<1>2. r \in Runs /\ a \in SUBSET Streams
  BY <1>1 DEF Runs
<1>3. \A t \in WithProc : r[t] = IF t = s THEN "held" ELSE c.runs[t]
  BY <1>1 DEF Runs
<1>4. d = NewStreamControl(e, s)
  BY SMT DEF Ask
<1> HIDE DEF r
<1>5. \A t \in WithProc : t \in {c.proc, c.slot} => t # s
  BY DEF Owes
<1>6. e \in Flow
  BY <1>2, FlowAsked, Zenon
<1>7. /\ e.state = c.state /\ e.act = c.act /\ e.stop = c.stop /\ e.load = c.load
      /\ e.sound = c.sound /\ e.count = c.count /\ e.subtitle = c.subtitle
      /\ e.demo = c.demo /\ e.left = c.left /\ e.due = c.due
      /\ e.proc = c.proc /\ e.runs = r /\ e.slot = c.slot /\ e.asked = a
  BY SMT DEF Flow
<1>8. Streaming(e) /\ Coming(e)
  BY <1>7 DEF Streaming, Coming, Users, Silent
<1> HIDE DEF e
<1>9. CASE c.state # 0
  <2>1. d = Pend(e, s)
    BY <1>4, <1>7, <1>9 DEF NewStreamControl
  <2>2. e.slot \in WithProc => e.runs[e.slot] = "held"
    BY <1>3, <1>5, <1>7 DEF Owes
  <2>3. /\ d \in Flow /\ d.state = e.state /\ d.stop
        /\ d.act = StopAct(e)
        /\ Ring(d) = Ring(e) /\ Ahead(d) = Ahead(e) /\ d.sound = e.sound
        /\ d.proc = e.proc /\ d.slot = s /\ d.asked = e.asked
        /\ d.runs = SlotRuns(e)
        /\ e.load # "none" => d.load = e.load
    BY <1>6, <2>1, <2>2, Pended
  <2>4. Streaming(d) /\ Coming(d)
    BY <1>8, <2>3, Stopped
  <2>5. \A t \in WithProc : d.runs[t] = IF t = c.slot THEN "settled" ELSE r[t]
    BY <1>1, <1>2, <1>7, <2>3 DEF Runs, SlotRuns
  <2>6. ASSUME NEW t \in WithProc
        PROVE  /\ d.runs[t] # "twice" /\ (d.runs[t] = "held" <=> t \in {d.proc, d.slot})
               /\ t \notin d.asked => d.runs[t] = "no"
               /\ Does[t] \in d.asked => d.runs[t] = "settled"
    <3>1. /\ c.runs[t] # "twice" /\ (c.runs[t] = "held" <=> t \in {c.proc, c.slot})
          /\ t \notin c.asked => c.runs[t] = "no"
          /\ Does[t] \in c.asked => c.runs[t] = "settled"
          /\ Does[t] = s => c.runs[t] = "settled"
          /\ c.slot \in WithProc => c.slot # c.proc
      BY DEF Owes
    <3>2. d.runs[t] = IF t = c.slot THEN "settled" ELSE IF t = s THEN "held" ELSE c.runs[t]
      BY <1>3, <2>5
    <3>3. d.proc = c.proc /\ d.slot = s /\ d.asked = c.asked \cup {s}
      BY <1>7, <2>3
    <3>4. t \in {c.proc, c.slot} => t # s
      BY <1>5
    <3> QED BY <3>1, <3>2, <3>3, <3>4
  <2>7. d.slot \in WithProc => d.slot # d.proc
    BY <1>5, <1>7, <2>3
  <2>8. Owes(d)
    BY <2>6, <2>7 DEF Owes
  <2> QED BY <1>7, <1>9, <2>3, <2>4, <2>8
<1>10. CASE c.state = 0
  <2>1. d = StartStream(e, s)
    BY <1>4, <1>7, <1>10 DEF NewStreamControl
  <2>2. /\ d \in Flow /\ d.state = 1 /\ d.act = "play" /\ ~d.stop /\ d.count = 0
        /\ d.sound = e.sound /\ d.subtitle = e.subtitle /\ d.demo = e.demo
        /\ d.left = Headers[s] /\ d.due = 0 /\ d.runs = e.runs /\ d.asked = e.asked
        /\ d.proc = ProcOf(s) /\ d.slot = e.slot
        /\ d.load = e.load
    BY <1>6, <2>1, Started
  <2>3. e.state = 0
    BY <1>7, <1>10
  <2>4. Streaming(d) /\ Coming(d)
    BY <1>8, <2>2, <2>3, StartedRing
  <2>5. ASSUME NEW t \in WithProc
        PROVE  /\ d.runs[t] # "twice" /\ (d.runs[t] = "held" <=> t \in {d.proc, d.slot})
               /\ t \notin d.asked => d.runs[t] = "no"
               /\ Does[t] \in d.asked => d.runs[t] = "settled"
    <3>1. /\ c.runs[t] # "twice" /\ (c.runs[t] = "held" <=> t \in {None, c.slot})
          /\ t \notin c.asked => c.runs[t] = "no"
          /\ Does[t] \in c.asked => c.runs[t] = "settled"
          /\ Does[t] = s => c.runs[t] = "settled"
      BY <1>10 DEF Owes
    <3>2. d.runs[t] = IF t = s THEN "held" ELSE c.runs[t]
      BY <1>3, <1>7, <2>2
    <3>3. d.slot = c.slot /\ d.asked = c.asked \cup {s}
          /\ d.proc = ProcOf(s)
      BY <1>7, <2>2
    <3>4. t \in {c.proc, c.slot} => t # s
      BY <1>5
    <3> QED BY <1>1, <3>1, <3>2, <3>3, <3>4 DEF ProcOf
  <2>6. d.slot \in WithProc => d.slot # d.proc
    BY <1>1, <1>5, <1>7, <2>2 DEF ProcOf
  <2>7. Owes(d)
    BY <2>5, <2>6 DEF Owes
  <2> QED BY <1>7, <2>2, <2>4, <2>7
<1> QED BY <1>9, <1>10

\* What may be asked for: a stream whose procedure is not owed yet, and not one that a
\* procedure asks for, but by that procedure when it has run.
May(c, s) == /\ s \in Streams /\ (s \in WithProc => s \notin c.asked)
             /\ \A t \in WithProc : Does[t] = s => c.runs[t] = "settled"

\* The same of a voice, which is not played once the game is over.
LEMMA VoxAsked ==
  ASSUME NEW c \in Flow, Streaming(c), Coming(c), Owes(c), c.state = 0 => c.proc = None,
         NEW s, May(c, s), NEW d, d = GM_VoxStream(c, s)
  PROVE  /\ d \in Flow /\ Streaming(d) /\ Coming(d) /\ Owes(d)
         /\ d.sound = c.sound /\ (c.load # "none" => d.load = c.load)
         /\ d.state = 0 => d.proc = None
         /\ c.state = 0 \/ d.state = 0 => d.slot = c.slot /\ c.state = 0
<1>1. CASE c.over
  <2> DEFINE a == c.asked \cup {s}
  <2>1. a \in SUBSET Streams
    BY SMT DEF May, Flow
  <2>2. d = [c EXCEPT !.asked = a]
    BY <1>1 DEF GM_VoxStream
  <2>3. d \in Flow
    <3> HIDE DEF a
    <3> QED BY <2>1, <2>2, FlowAskedOnly, Zenon
  <2>4. /\ d.state = c.state /\ d.act = c.act /\ d.stop = c.stop /\ d.load = c.load
        /\ d.sound = c.sound /\ d.count = c.count /\ d.subtitle = c.subtitle
        /\ d.demo = c.demo /\ d.left = c.left /\ d.due = c.due
        /\ d.proc = c.proc /\ d.runs = c.runs /\ d.slot = c.slot /\ d.asked = a
    BY <2>2, SMT DEF Flow
  <2>5. Streaming(d) /\ Coming(d)
    BY <2>4 DEF Streaming, Coming, Users, Silent
  <2>6. Owes(d)
    BY <2>4 DEF Owes, May
  <2> QED BY <2>3, <2>4, <2>5, <2>6
<1>2. CASE ~c.over
  <2>1. PICK v \in BOOLEAN : d = Ask([c EXCEPT !.vox = v], s)
    <3>1. (c.vox \/ s \notin Waits) \in BOOLEAN
      OBVIOUS
    <3> QED BY <1>2, <3>1 DEF GM_VoxStream
  <2> DEFINE e == [c EXCEPT !.vox = v]
  <2>2. e \in Flow
    BY FlowVox, Zenon
  <2>3. /\ e.state = c.state /\ e.act = c.act /\ e.stop = c.stop /\ e.load = c.load
        /\ e.sound = c.sound /\ e.count = c.count /\ e.subtitle = c.subtitle
        /\ e.demo = c.demo /\ e.left = c.left /\ e.due = c.due
        /\ e.proc = c.proc /\ e.runs = c.runs /\ e.slot = c.slot /\ e.asked = c.asked
    BY SMT DEF Flow
  <2>4. d = Ask(e, s)
    BY <2>1
  <2> HIDE DEF e
  <2>5. Streaming(e) /\ Coming(e) /\ Owes(e) /\ (e.state = 0 => e.proc = None)
    BY <2>3 DEF Streaming, Coming, Owes, Users, Silent
  <2>6. s \in Streams /\ (s \in WithProc => s \notin e.asked) /\ \A t \in WithProc : Does[t] = s => e.runs[t] = "settled"
    BY <2>3 DEF May
  <2>7. /\ d \in Flow /\ Streaming(d) /\ Coming(d) /\ Owes(d) /\ d.state # 0
        /\ d.sound = e.sound /\ (e.load # "none" => d.load = e.load)
        /\ e.state = 0 => d.slot = e.slot
    BY <2>2, <2>4, <2>5, <2>6, Asked
  <2> QED BY <2>3, <2>7
<1> QED BY <1>1, <1>2

LEMMA AskOK ==
  ASSUME NEW c, StreamOK(c), NEW s, May(c, s), NEW d, d = Ask(c, s)
  PROVE  StreamOK(d) /\ d.sound = c.sound /\ (c.load # "none" => d.load = c.load)
<1>1. c \in Flow /\ Streaming(c) /\ Coming(c) /\ Owes(c) /\ (c.state = 0 => c.proc = None)
  BY DEF StreamOK, Owing
<1>2. s \in Streams /\ (s \in WithProc => s \notin c.asked) /\ \A t \in WithProc : Does[t] = s => c.runs[t] = "settled"
  BY DEF May
<1>3. /\ d \in Flow /\ Streaming(d) /\ Coming(d) /\ Owes(d) /\ d.state # 0
      /\ d.sound = c.sound /\ (c.load # "none" => d.load = c.load)
  BY <1>1, <1>2, Asked
<1> QED BY <1>3 DEF StreamOK, Owing

LEMMA VoxOK ==
  ASSUME NEW c, StreamOK(c), NEW s, May(c, s), NEW d, d = GM_VoxStream(c, s)
  PROVE  StreamOK(d) /\ d.sound = c.sound /\ (c.load # "none" => d.load = c.load)
<1>1. c \in Flow /\ Streaming(c) /\ Coming(c) /\ Owes(c)
      /\ (c.state = 0 => c.proc = None /\ c.slot = None)
  BY DEF StreamOK, Owing
<1>2. /\ d \in Flow /\ Streaming(d) /\ Coming(d) /\ Owes(d)
      /\ d.sound = c.sound /\ (c.load # "none" => d.load = c.load)
      /\ d.state = 0 => d.proc = None
      /\ c.state = 0 \/ d.state = 0 => d.slot = c.slot /\ c.state = 0
  BY <1>1, VoxAsked
<1> QED BY <1>1, <1>2 DEF StreamOK, Owing

LEMMA DemoStreamOK ==
  ASSUME NEW c, StreamOK(c), NEW s, May(c, s), NEW d, d = GM_DemoStream(c, s)
  PROVE  StreamOK(d) /\ d.sound = c.sound /\ (c.load # "none" => d.load = c.load)
<1>1. PICK v \in BOOLEAN, w \in BOOLEAN : d = Ask([c EXCEPT !.vox = v, !.cutscene = w], s)
  BY Constants DEF GM_DemoStream
<1> DEFINE e == [c EXCEPT !.vox = v, !.cutscene = w]
<1>2. c \in Flow
  BY DEF StreamOK
<1>3. e \in Flow
  BY <1>2, FlowVox, Zenon
<1>4. /\ e.state = c.state /\ e.act = c.act /\ e.stop = c.stop /\ e.load = c.load
      /\ e.sound = c.sound /\ Ring(e) = Ring(c) /\ Ahead(e) = Ahead(c) /\ Owed(e) = Owed(c)
      /\ e.runs = c.runs /\ e.asked = c.asked
  BY <1>2, SMT DEF Flow, Ring, Ahead, Owed
<1>5. d = Ask(e, s)
  BY <1>1
<1> HIDE DEF e
<1>6. StreamOK(e)
  BY <1>3, <1>4, Whole
<1>7. May(e, s)
  BY <1>4 DEF May
<1>8. StreamOK(d) /\ d.sound = e.sound /\ (e.load # "none" => d.load = e.load)
  BY <1>5, <1>6, <1>7, AskOK
<1> QED BY <1>4, <1>8

\* A stream that dies leaves its slot to the next and runs its procedure, which may ask
\* for a stream of its own.
LEMMA EndProcOK ==
  ASSUME NEW c \in Flow, Streaming(c), Coming(c), c.state = 0, c.proc = None,
         NEW p \in WithProc, c.runs[p] = "held", c.slot # p,
         \A t \in WithProc : /\ c.runs[t] # "twice" /\ (c.runs[t] = "held" <=> t \in {p, c.slot})
                             /\ t \notin c.asked => c.runs[t] = "no"
                             /\ Does[t] \in c.asked => c.runs[t] = "settled",
         NEW d, d = EndProc(c, p)
  PROVE  /\ d \in Flow /\ Streaming(d) /\ Coming(d) /\ Owes(d)
         /\ d.sound = c.sound /\ (c.load # "none" => d.load = c.load)
         /\ d.state = 0 => d.proc = None
         /\ d.slot = c.slot
<1> DEFINE e == GCL_ExecProc(c, p)
<1>1. /\ e \in Flow /\ e.state = c.state /\ e.act = c.act /\ e.stop = c.stop
      /\ Ring(e) = Ring(c) /\ Ahead(e) = Ahead(c)
      /\ e.sound = c.sound /\ e.proc = c.proc /\ e.slot = c.slot /\ e.asked = c.asked
      /\ e.runs = [c.runs EXCEPT ![p] = "settled"]
      /\ e.over = c.over /\ (c.load # "none" => e.load = c.load)
  BY ExecProc
<1>2. d = e \/ (Does[p] \in Streams /\ d = GM_VoxStream(e, Does[p]))
  BY DEF EndProc
<1> HIDE DEF e
<1>3. c.runs \in Runs /\ WithProc \subseteq Streams /\ None \notin WithProc
  BY StreamsAssumption, SMT DEF Flow
<1>4. \A t \in WithProc : e.runs[t] = IF t = p THEN "settled" ELSE c.runs[t]
  BY <1>1, <1>3 DEF Runs
<1>5. Streaming(e) /\ Coming(e)
  <2>1. /\ e.count = c.count /\ e.sound = c.sound /\ e.subtitle = c.subtitle
        /\ e.demo = c.demo /\ e.left = c.left /\ e.due = c.due
    BY <1>1 DEF Ring, Ahead
  <2>2. Streaming(e)
    BY <1>1, <2>1 DEF Streaming, Users, Silent
  <2>3. Coming(e)
    BY <1>1, <2>1 DEF Coming
  <2> QED BY <2>2, <2>3
<1>6. Owes(e)
  <2>1. ASSUME NEW t \in WithProc
        PROVE  /\ e.runs[t] # "twice" /\ (e.runs[t] = "held" <=> t \in {e.proc, e.slot})
               /\ t \notin e.asked => e.runs[t] = "no"
               /\ Does[t] \in e.asked => e.runs[t] = "settled"
    BY <1>1, <1>3, <1>4
  <2> QED BY <1>1, <1>3, <2>1 DEF Owes
<1>7. CASE d = e
  BY <1>1, <1>5, <1>6, <1>7
<1>8. CASE Does[p] \in Streams /\ d = GM_VoxStream(e, Does[p])
  <2>1. May(e, Does[p])
    <3>1. Does[p] \notin e.asked
      BY <1>1
    <3>2. \A t \in WithProc : Does[t] = Does[p] => t = p
      BY <1>8, FilesAssumption
    <3> QED BY <1>4, <1>8, <3>1, <3>2 DEF May
  <2>2. e.state = 0 /\ e.proc = None
    BY <1>1
  <2>3. /\ d \in Flow /\ Streaming(d) /\ Coming(d) /\ Owes(d)
        /\ d.sound = e.sound /\ (e.load # "none" => d.load = e.load)
        /\ d.state = 0 => d.proc = None
        /\ e.state = 0 \/ d.state = 0 => d.slot = e.slot /\ e.state = 0
    BY <1>1, <1>5, <1>6, <1>8, <2>1, <2>2, VoxAsked
  <2> QED BY <1>1, <2>2, <2>3
<1> QED BY <1>2, <1>7, <1>8

LEMMA DieOK ==
  ASSUME NEW c, StreamOK(c), c.act = "marked", NEW d, d = StreamDie(c)
  PROVE  StreamOK(d) /\ d.sound = c.sound /\ (c.load # "none" => d.load = c.load)
<1> DEFINE b == [c EXCEPT !.state = 0, !.act = "none", !.vox = FALSE, !.proc = None,
                          !.left = <<>>, !.due = 0]
           e == IF c.proc = None THEN b ELSE EndProc(b, c.proc)
<1>1. c \in Flow /\ Silent(c) /\ Streaming(c) /\ Owes(c)
  BY DEF StreamOK, Streaming, Owing
<1>2. c.proc \in WithProc \cup {None} /\ c.slot \in Streams \cup {None}
      /\ None \notin WithProc /\ None \notin Streams /\ WithProc \subseteq Streams
  BY <1>1, StreamsAssumption, SMT DEF Flow
<1>3. d = IF e.slot = None THEN e ELSE [NewStreamControl(e, e.slot) EXCEPT !.slot = None]
  BY DEF StreamDie
<1>4. b \in Flow
  <2>1. "none" \in ActState /\ None \in WithProc \cup {None} /\ <<>> \in Seq(Kind)
    BY DEF ActState
  <2> QED BY <1>1, <2>1, Constants, FlowDie, Zenon
<1>5. /\ b.state = 0 /\ b.act = "none" /\ b.proc = None /\ b.left = <<>> /\ b.due = 0
      /\ b.count = c.count /\ b.sound = c.sound /\ b.subtitle = c.subtitle /\ b.demo = c.demo
      /\ b.slot = c.slot /\ b.runs = c.runs /\ b.asked = c.asked /\ b.load = c.load
  BY <1>1, SMT DEF Flow
<1> HIDE DEF b
<1>6. Streaming(b) /\ Coming(b)
  BY <1>1, <1>5 DEF Streaming, Coming, Users, Silent
<1>7. \A t \in WithProc :
        /\ c.runs[t] # "twice" /\ (c.runs[t] = "held" <=> t \in {c.proc, c.slot})
        /\ t \notin c.asked => c.runs[t] = "no"
        /\ Does[t] \in c.asked => c.runs[t] = "settled"
  BY <1>1 DEF Owes
<1>8. /\ e \in Flow /\ Streaming(e) /\ Coming(e) /\ Owes(e)
      /\ e.sound = c.sound /\ (c.load # "none" => e.load = c.load)
      /\ e.state = 0 => e.proc = None
      /\ e.slot = c.slot
  <2>1. CASE c.proc = None
    <3>1. e = b
      BY <2>1
    <3>2. Owes(b)
      BY <1>5, <1>7, <1>2, <2>1 DEF Owes
    <3> QED BY <1>4, <1>5, <1>6, <3>1, <3>2
  <2>2. CASE c.proc # None
    <3>1. c.proc \in WithProc /\ e = EndProc(b, c.proc)
      BY <1>2, <2>2
    <3> HIDE DEF e
    <3>2. c.runs[c.proc] = "held" /\ c.slot # c.proc
      BY <1>1, <1>7, <3>1 DEF Owes
    <3>3. /\ b.state = 0 /\ b.proc = None /\ b.runs[c.proc] = "held" /\ b.slot # c.proc
          /\ \A t \in WithProc :
               /\ b.runs[t] # "twice" /\ (b.runs[t] = "held" <=> t \in {c.proc, b.slot})
               /\ t \notin b.asked => b.runs[t] = "no"
               /\ Does[t] \in b.asked => b.runs[t] = "settled"
      BY <1>5, <1>7, <3>2
    <3>4. /\ e \in Flow /\ Streaming(e) /\ Coming(e) /\ Owes(e)
          /\ e.sound = b.sound /\ (b.load # "none" => e.load = b.load)
          /\ e.state = 0 => e.proc = None
          /\ e.slot = b.slot
      BY <1>4, <1>6, <3>1, <3>3, EndProcOK
    <3> QED BY <1>5, <3>4
  <2> QED BY <2>1, <2>2
<1> HIDE DEF e
<1>9. CASE e.slot = None
  BY <1>3, <1>8, <1>9 DEF StreamOK, Owing
<1>10. CASE e.slot # None
  <2> DEFINE f == NewStreamControl(e, e.slot)
  <2>1. e.slot \in Streams /\ d = [f EXCEPT !.slot = None]
    BY <1>2, <1>3, <1>8, <1>10
  <2>2. e.runs \in Runs
    BY <1>8, SMT DEF Flow
  <2>3. /\ f \in Flow /\ Streaming(f) /\ Coming(f) /\ f.state # 0
        /\ f.sound = e.sound /\ (e.load # "none" => f.load = e.load) /\ f.asked = e.asked
        /\ \A t \in WithProc :
             /\ f.runs[t] # "twice" /\ (f.runs[t] = "held" <=> t = f.proc)
             /\ f.runs[t] \in {e.runs[t], "settled"} /\ (e.runs[t] = "no" => f.runs[t] = "no")
    <3>1. CASE e.state # 0
      <4>1. f = Pend(e, e.slot)
        BY <3>1 DEF NewStreamControl
      <4>2. e.slot \in WithProc => e.runs[e.slot] = "held"
        BY <1>8 DEF Owes
      <4> HIDE DEF f
      <4>3. /\ f \in Flow /\ f.state = e.state /\ f.stop
            /\ f.act = StopAct(e)
            /\ Ring(f) = Ring(e) /\ Ahead(f) = Ahead(e) /\ f.sound = e.sound
            /\ f.proc = e.proc /\ f.slot = e.slot /\ f.asked = e.asked
            /\ f.runs = SlotRuns(e)
            /\ e.load # "none" => f.load = e.load
        BY <1>8, <2>1, <4>1, <4>2, Pended
      <4>4. Streaming(f) /\ Coming(f)
        BY <1>8, <4>3, Stopped
      <4>5. \A t \in WithProc : f.runs[t] = IF t = e.slot THEN "settled" ELSE e.runs[t]
        BY <1>2, <2>2, <4>3 DEF SlotRuns, Runs
      <4>6. ASSUME NEW t \in WithProc
            PROVE  /\ f.runs[t] # "twice" /\ (f.runs[t] = "held" <=> t = f.proc)
                   /\ f.runs[t] \in {e.runs[t], "settled"} /\ (e.runs[t] = "no" => f.runs[t] = "no")
        <5>1. e.runs[t] # "twice" /\ (e.runs[t] = "held" <=> t \in {e.proc, e.slot})
              /\ (e.slot \in WithProc => e.slot # e.proc)
          BY <1>8 DEF Owes
        <5>2. f.runs[t] = (IF t = e.slot THEN "settled" ELSE e.runs[t]) /\ f.proc = e.proc
          BY <4>3, <4>5
        <5> QED BY <5>1, <5>2
      <4> QED BY <3>1, <4>3, <4>4, <4>6
    <3>2. CASE e.state = 0
      <4>1. f = StartStream(e, e.slot) /\ e.proc = None
        BY <1>8, <3>2 DEF NewStreamControl
      <4> HIDE DEF f
      <4>2. /\ f \in Flow /\ f.state = 1 /\ f.act = "play" /\ ~f.stop /\ f.count = 0
            /\ f.sound = e.sound /\ f.subtitle = e.subtitle /\ f.demo = e.demo
            /\ f.left = Headers[e.slot] /\ f.due = 0 /\ f.runs = e.runs /\ f.asked = e.asked
            /\ f.proc = ProcOf(e.slot) /\ f.slot = e.slot
            /\ f.load = e.load
        BY <1>8, <2>1, <4>1, Started
      <4>3. Streaming(f) /\ Coming(f)
        BY <1>8, <2>1, <3>2, <4>2, StartedRing
      <4>4. ASSUME NEW t \in WithProc
            PROVE  /\ f.runs[t] # "twice" /\ (f.runs[t] = "held" <=> t = f.proc)
                   /\ f.runs[t] \in {e.runs[t], "settled"} /\ (e.runs[t] = "no" => f.runs[t] = "no")
        <5>1. e.runs[t] # "twice" /\ (e.runs[t] = "held" <=> t \in {None, e.slot})
          BY <1>8, <4>1 DEF Owes
        <5> QED BY <1>2, <4>2, <5>1 DEF ProcOf
      <4> QED BY <4>2, <4>3, <4>4
    <3> QED BY <3>1, <3>2
  <2> HIDE DEF f
  <2>4. d \in Flow
    <3>1. None \in Streams \cup {None}
      OBVIOUS
    <3> QED BY <2>1, <2>3, <3>1, FlowSlot, Zenon
  <2>5. /\ d.state = f.state /\ d.act = f.act /\ d.stop = f.stop /\ d.load = f.load
        /\ d.sound = f.sound /\ d.count = f.count /\ d.subtitle = f.subtitle
        /\ d.demo = f.demo /\ d.left = f.left /\ d.due = f.due
        /\ d.proc = f.proc /\ d.runs = f.runs /\ d.slot = None /\ d.asked = f.asked
    <3>1. f \in Flow
      BY <2>3
    <3> QED BY <2>1, <3>1, SMT DEF Flow
  <2>6. Streaming(d) /\ Coming(d)
    BY <2>3, <2>5 DEF Streaming, Coming, Users, Silent
  <2>7. ASSUME NEW t \in WithProc
        PROVE  /\ d.runs[t] # "twice" /\ (d.runs[t] = "held" <=> t \in {d.proc, d.slot})
               /\ t \notin d.asked => d.runs[t] = "no"
               /\ Does[t] \in d.asked => d.runs[t] = "settled"
    <3>1. /\ t \notin e.asked => e.runs[t] = "no"
          /\ Does[t] \in e.asked => e.runs[t] = "settled"
      BY <1>8 DEF Owes
    <3>2. t # None
      BY <1>2
    <3> QED BY <2>3, <2>5, <3>1, <3>2
  <2>8. Owing(d)
    BY <1>2, <2>3, <2>5, <2>7 DEF Owing, Owes
  <2> QED BY <1>8, <2>3, <2>4, <2>5, <2>6, <2>8 DEF StreamOK
<1> QED BY <1>9, <1>10

(*----------------------- the turns of the stream -------------------------*)

LEMMA Rest ==
  ASSUME NEW S, NEW s \in Seq(S), NEW n \in Nat, n <= Len(s),
         NEW l, l = SubSeq(s, n + 1, Len(s))
  PROVE  /\ l \in Seq(S) /\ Len(l) = Len(s) - n
         /\ \A i \in 1 .. Len(l) : i + n \in 1 .. Len(s) /\ l[i] = s[i + n]
<1>1. Len(s) \in Nat
  OBVIOUS
<1>2. Len(l) = Len(s) - n
  BY <1>1
<1>3. \A i \in 1 .. Len(l) : i + n \in 1 .. Len(s) /\ l[i] = s[i + n]
  BY <1>1, <1>2
<1>4. l \in Seq(S)
  BY <1>1
<1> QED BY <1>2, <1>3, <1>4

\* The headers whose time has come open the ring once for each user they start.
LEMMA BeginDueOK ==
  ASSUME NEW c, StreamOK(c), c.state = 3, c.act = "play", c.sound # "asked",
         NEW d, d = BeginDue(c)
  PROVE  /\ StreamOK(d) /\ d.load = c.load /\ d.state = 3 /\ d.act = "play"
         /\ d.sound = "asked" => d.sub = 2 /\ ~d.stop
<1>1. c \in Flow /\ Streaming(c) /\ Coming(c) /\ Owing(c)
  BY DEF StreamOK
<1>2. CASE c.stop \/ c.due = 0
  BY <1>2 DEF BeginDue
<1>3. CASE ~c.stop /\ c.due # 0
  <2> DEFINE H  == {c.left[i] : i \in 1 .. c.due}
             sb == "subtitle" \in H /\ c.subtitle \notin {"waits", "shown"}
             dm == "demo" \in H
             a  == IF "sound" \in H /\ c.sound = "off" THEN "asked" ELSE c.sound
             b  == IF sb THEN "waits" ELSE c.subtitle
             m  == IF dm THEN "first" ELSE c.demo
             n  == c.count + (IF sb THEN 1 ELSE 0) + (IF dm THEN 1 ELSE 0)
             l  == SubSeq(c.left, c.due + 1, Len(c.left))
             e  == [c EXCEPT !.sound = a, !.subtitle = b, !.demo = m, !.count = n]
  <2>1. c.left \in Seq(Kind) /\ c.due \in Nat /\ c.count \in Int /\ c.sound \in SoundState
        /\ c.subtitle \in SubtitleState /\ c.demo \in DemoState
    BY <1>1, SMT DEF Flow
  <2>2. Len(c.left) \in Nat /\ c.due <= Len(c.left) /\ c.due > 0 /\ c.left # <<>>
    <3>1. c.due <= Len(c.left)
      BY <1>1 DEF Coming
    <3>2. c.left = <<>> => Len(c.left) = 0
      OBVIOUS
    <3> QED BY <1>3, <2>1, <3>1, <3>2
  <2>3. /\ l \in Seq(Kind) /\ Len(l) = Len(c.left) - c.due
        /\ \A i \in 1 .. Len(l) : i + c.due \in 1 .. Len(c.left) /\ l[i] = c.left[i + c.due]
    <3>1. l = SubSeq(c.left, c.due + 1, Len(c.left))
      OBVIOUS
    <3>2. c.left \in Seq(Kind) /\ c.due \in Nat /\ c.due <= Len(c.left)
      BY <2>1, <2>2
    <3> HIDE DEF l, H
    <3>3. l \in Seq(Kind) /\ Len(l) = Len(c.left) - c.due
      BY <3>1, <3>2, Rest, SMT
    <3>4. ASSUME NEW i \in 1 .. Len(l)
          PROVE  i + c.due \in 1 .. Len(c.left) /\ l[i] = c.left[i + c.due]
      <4>1. i + c.due \in 1 .. Len(c.left)
        BY <2>2, <3>2, <3>3
      <4>2. PICK t, k : t = c.left /\ k = c.due
        OBVIOUS
      <4>3. t \in Seq(Kind) /\ k \in Nat /\ k <= Len(t) /\ l = SubSeq(t, k + 1, Len(t))
        BY <3>1, <3>2, <4>2
      <4>4. l[i] = t[i + k]
        BY <4>3, Rest
      <4> QED BY <4>1, <4>2, <4>4
    <3> QED BY <3>3, <3>4
  <2>4. c.subtitle # "marked" /\ (c.subtitle = "shown" => c.sound = "playing")
    BY <1>1, <1>3, <2>2 DEF Coming
  <2>5. dm => c.demo = "none" /\ \A i \in 1 .. Len(l) : l[i] # "demo"
    <3> SUFFICES ASSUME dm
                 PROVE  c.demo = "none" /\ \A i \in 1 .. Len(l) : l[i] # "demo"
      OBVIOUS
    <3>1. PICK j \in 1 .. c.due : c.left[j] = "demo"
      OBVIOUS
    <3>2. j \in 1 .. Len(c.left)
      BY <2>1, <2>2
    <3>3. c.demo = "none"
      BY <1>1, <3>1, <3>2 DEF Coming
    <3>4. ASSUME NEW i \in 1 .. Len(l), l[i] = "demo"
          PROVE  FALSE
      <4>1. i + c.due \in 1 .. Len(c.left) /\ c.left[i + c.due] = "demo"
        BY <2>3, <3>4
      <4>2. i + c.due # j
        <5> HIDE DEF l
        <5> QED BY <2>1, <2>2, <2>3, <3>2
      <4> QED BY <1>1, <3>1, <3>2, <4>1, <4>2 DEF Coming
    <3> QED BY <3>3, <3>4
  <2>6. a \in SoundState /\ b \in SubtitleState /\ m \in DemoState /\ n \in Int
    BY <2>1 DEF SoundState, SubtitleState, DemoState
  <2>7. d = [e EXCEPT !.left = l, !.due = 0, !.sub = 2]
    <3>1. Begin(c, H) = e
      BY DEF Begin
    <3>2. d = [Begin(c, H) EXCEPT !.left = SubSeq(Begin(c, H).left, c.due + 1, Len(Begin(c, H).left)), !.due = 0, !.sub = 2]
      BY <1>3 DEF BeginDue
    <3>3. e.left = c.left
      BY <1>1, SMT DEF Flow
    <3> HIDE DEF e, H
    <3> QED BY <3>1, <3>2, <3>3
  <2>8. /\ a = "asked" \/ a = c.sound
        /\ a \in {"opened", "playing", "closing"} <=> c.sound \in {"opened", "playing", "closing"}
        /\ b = "waits" \/ b = c.subtitle
    OBVIOUS
  <2>9. n = Opened(a \in {"opened", "playing", "closing"}) + Opened(b # "none")
                  + Opened(m # "none")
    <3>1. c.count = Opened(c.sound \in {"opened", "playing", "closing"})
                    + Opened(c.subtitle # "none") + Opened(c.demo # "none")
      BY <1>1 DEF Streaming, Users
    <3>2. Opened(a \in {"opened", "playing", "closing"}) =
            Opened(c.sound \in {"opened", "playing", "closing"})
          /\ Opened(c.sound \in {"opened", "playing", "closing"}) \in Int
      BY <2>8 DEF Opened
    <3>3. Opened(b # "none") = Opened(c.subtitle # "none") + (IF sb THEN 1 ELSE 0)
          /\ Opened(c.subtitle # "none") \in Int
      BY <2>1, <2>4 DEF SubtitleState, Opened
    <3>4. Opened(m # "none") = Opened(c.demo # "none") + (IF dm THEN 1 ELSE 0)
          /\ Opened(c.demo # "none") \in Int
      BY <2>5 DEF Opened
    <3>5. (IF sb THEN 1 ELSE 0) \in Int /\ (IF dm THEN 1 ELSE 0) \in Int
      OBVIOUS
    <3> HIDE DEF sb, dm, a, b, m
    <3> QED BY <3>1, <3>2, <3>3, <3>4, <3>5
  <2>10. b = "shown" => a = "playing"
    BY <2>4
  <2>11. m # "none" => m = c.demo \/ \A i \in 1 .. Len(l) : l[i] # "demo"
    BY <2>5
  <2>12. b # "marked"
    BY <2>4
  <2> HIDE DEF H, sb, dm, a, b, m, n, l
  <2>13. e \in Flow
    BY <1>1, <2>6, FlowBegin, Zenon
  <2>14. /\ e.state = c.state /\ e.act = c.act /\ e.stop = c.stop /\ e.load = c.load
         /\ e.sound = a /\ e.count = n /\ e.subtitle = b
         /\ e.demo = m /\ e.proc = c.proc /\ e.runs = c.runs /\ e.slot = c.slot
         /\ e.asked = c.asked
    BY <1>1, SMT DEF Flow
  <2> HIDE DEF e
  <2>15. d \in Flow
    <3>1. l \in Seq(Kind)
      BY <2>3
    <3>2. [e EXCEPT !.left = l, !.due = 0, !.sub = 2] \in Flow
      BY <3>1, <2>13, Constants, FlowLeft
    <3> QED BY <2>7, <3>2
  <2>16. /\ d.state = e.state /\ d.act = e.act /\ d.stop = e.stop /\ d.load = e.load
         /\ d.sound = e.sound /\ d.count = e.count /\ d.subtitle = e.subtitle
         /\ d.demo = e.demo /\ d.proc = e.proc /\ d.runs = e.runs /\ d.slot = e.slot
         /\ d.asked = e.asked /\ d.left = l /\ d.due = 0 /\ d.sub = 2
    BY <2>7, <2>13, SMT DEF Flow
  <2>17. Streaming(d)
    BY <1>1, <2>9, <2>14, <2>16 DEF Streaming, Users
  <2>18. Coming(d)
    <3>1. ASSUME NEW i \in 1 .. Len(l), NEW j \in 1 .. Len(l), l[i] = "demo", l[j] = "demo"
          PROVE  i = j
      <4>1. i + c.due \in 1 .. Len(c.left) /\ j + c.due \in 1 .. Len(c.left)
            /\ c.left[i + c.due] = "demo" /\ c.left[j + c.due] = "demo"
        BY <2>1, <2>2, <2>3, <3>1
      <4>2. i + c.due = j + c.due
        BY <1>1, <4>1 DEF Coming
      <4> QED BY <2>1, <2>2, <2>3, <4>2
    <3>2. ASSUME NEW i \in 1 .. Len(l), l[i] = "demo"
          PROVE  m = "none"
      <4>1. i + c.due \in 1 .. Len(c.left) /\ c.left[i + c.due] = "demo"
        BY <2>1, <2>2, <2>3, <3>2
      <4>2. c.demo = "none"
        BY <1>1, <4>1 DEF Coming
      <4> QED BY <2>11, <3>2, <4>2
    <3>3. Len(l) >= 0
      BY <2>1, <2>2, <2>3
    <3> QED BY <2>10, <2>12, <2>14, <2>16, <3>1, <3>2, <3>3 DEF Coming
  <2>19. Owing(d)
    BY <1>1, <2>14, <2>16 DEF Owing, Owes
  <2> QED BY <1>3, <2>14, <2>15, <2>16, <2>17, <2>18, <2>19 DEF StreamOK
<1> QED BY <1>2, <1>3

LEMMA SyncOK ==
  ASSUME NEW c, StreamOK(c), NEW d, d = FS_StreamSync(c)
  PROVE  /\ StreamOK(d) /\ d.load = c.load /\ d.state = c.state /\ d.act = c.act
         /\ d.sound = c.sound /\ d.sub = c.sub /\ d.count = c.count
<1> DEFINE t == CASE c.end \/ c.stop -> 0
                  [] ~c.end /\ ~c.stop /\ c.task = -1 /\ ~c.read -> 1
                  [] OTHER -> c.task
<1>1. c \in Flow /\ c.task \in -1 .. 1
  BY SMT DEF StreamOK, Flow
<1>2. t \in -1 .. 1
  BY <1>1
<1>3. d = [c EXCEPT !.task = t]
  BY DEF FS_StreamSync
<1> HIDE DEF t
<1>4. d \in Flow
  <2>1. [c EXCEPT !.task = t] \in Flow
    BY <1>1, <1>2, FlowSync
  <2> QED BY <1>3, <2>1
<1>5. /\ d.state = c.state /\ d.act = c.act /\ d.stop = c.stop /\ d.load = c.load
      /\ d.sound = c.sound /\ d.sub = c.sub /\ d.count = c.count
      /\ Ring(d) = Ring(c) /\ Ahead(d) = Ahead(c) /\ Owed(d) = Owed(c)
  BY <1>1, <1>3, SMT DEF Flow, Ring, Ahead, Owed
<1> QED BY <1>4, <1>5, Whole

\* A stream ends when nobody uses the ring, and nobody is about to.
LEMMA WindUpOK ==
  ASSUME NEW c, StreamOK(c), c.state = 3, c.act = "play",
         c.sound = "asked" => c.sub = 2 /\ ~c.stop,
         NEW d, d = WindUp(c)
  PROVE  StreamOK(d) /\ d.load = c.load
<1> DEFINE u == IF c.sub = 2 /\ ~FS_StreamIsEnd(c) THEN 0 ELSE c.sub
           e == [c EXCEPT !.sub = u]
<1>1. c \in Flow /\ c.sub \in 0 .. 2
  BY SMT DEF StreamOK, Flow
<1>2. u \in 0 .. 2 /\ (u = 0 => c.sub = 0 \/ c.count # 0)
  BY <1>1 DEF FS_StreamIsEnd
<1>3. d = e \/ ((u = 0 \/ e.stop) /\ e.count = 0 /\ d = [e EXCEPT !.act = "drain", !.task = 0])
  <2>1. e.sub = u
    BY <1>1, SMT DEF Flow
  <2>2. e = [c EXCEPT !.sub = IF @ = 2 /\ ~FS_StreamIsEnd(c) THEN 0 ELSE @]
    OBVIOUS
  <2> HIDE DEF e, u
  <2> QED BY <2>1, <2>2 DEF WindUp, FS_StreamIsEnd
<1> HIDE DEF u
<1>4. e \in Flow
  BY <1>1, <1>2, FlowSub, Zenon
<1>5. /\ e.state = c.state /\ e.act = c.act /\ e.stop = c.stop /\ e.load = c.load
      /\ e.sound = c.sound /\ e.count = c.count /\ e.subtitle = c.subtitle /\ e.demo = c.demo
      /\ Ring(e) = Ring(c) /\ Ahead(e) = Ahead(c) /\ Owed(e) = Owed(c)
  BY <1>1, SMT DEF Flow, Ring, Ahead, Owed
<1> HIDE DEF e
<1>6. StreamOK(e)
  BY <1>4, <1>5, Whole
<1>7. CASE d = e
  BY <1>5, <1>6, <1>7
<1>8. CASE (u = 0 \/ e.stop) /\ e.count = 0 /\ d = [e EXCEPT !.act = "drain", !.task = 0]
  <2>1. d \in Flow
    <3>1. "drain" \in ActState
      BY DEF ActState
    <3>2. [e EXCEPT !.act = "drain", !.task = 0] \in Flow
      BY <1>4, <3>1, Constants, FlowDrain
    <3> QED BY <1>8, <3>2
  <2>2. /\ d.state = e.state /\ d.act = "drain" /\ d.stop = e.stop /\ d.load = e.load
        /\ d.sound = e.sound /\ d.count = e.count /\ d.subtitle = e.subtitle /\ d.demo = e.demo
        /\ d.left = e.left /\ d.due = e.due /\ d.proc = e.proc /\ d.runs = e.runs
        /\ d.slot = e.slot /\ d.asked = e.asked
    BY <1>4, <1>8, SMT DEF Flow
  <2>3. e.sound # "asked"
    BY <1>2, <1>5, <1>8
  <2>4. e.count = Users(e) /\ e.sound \in SoundState
    BY <1>4, <1>6, SMT DEF StreamOK, Streaming, Flow
  <2>5. Silent(e)
    BY <1>8, <2>3, <2>4 DEF Users, Opened, Silent, SoundState
  <2>6. Streaming(d)
    BY <1>5, <1>6, <2>2, <2>5 DEF StreamOK, Streaming, Users, Silent
  <2>7. Coming(d) /\ Owing(d)
    BY <1>6, <2>2 DEF StreamOK, Coming, Owing, Owes
  <2> QED BY <1>5, <2>1, <2>2, <2>6, <2>7 DEF StreamOK
<1> QED BY <1>3, <1>7, <1>8

LEMMA PlayOK ==
  ASSUME NEW c, StreamOK(c), c.act = "play", c.sound # "asked", NEW d, d = Play(c)
  PROVE  StreamOK(d) /\ d.load = c.load
<1>1. c \in Flow /\ c.state \in {1, 2, 3}
  <2>1. c \in Flow /\ c.state \in 0 .. 3 /\ (c.state = 0 <=> c.act = "none")
    BY SMT DEF StreamOK, Flow, Streaming
  <2> QED BY <2>1
<1>2. CASE c.state = 3
  <2> DEFINE e == BeginDue(c)
  <2>1. /\ StreamOK(e) /\ e.load = c.load /\ e.state = 3 /\ e.act = "play"
        /\ e.sound = "asked" => e.sub = 2 /\ ~e.stop
    BY <1>2, BeginDueOK
  <2>2. d = WindUp(e)
    BY <1>2 DEF Play
  <2> HIDE DEF e
  <2> QED BY <2>1, <2>2, WindUpOK
<1>3. CASE c.state # 3
  <2>1. PICK t \in {2, 3}, v \in BOOLEAN : \/ d = c \/ d = [c EXCEPT !.state = t]
                                           \/ d = [c EXCEPT !.state = t, !.vox = v, !.sub = 1]
    BY <1>3, Constants DEF Play
  <2>2. t \in 0 .. 3
    BY <2>1
  <2>3. CASE d = c
    BY <2>3
  <2>4. CASE d = [c EXCEPT !.state = t] \/ d = [c EXCEPT !.state = t, !.vox = v, !.sub = 1]
    <3>1. d \in Flow
      <4>1. [c EXCEPT !.state = t] \in Flow /\ [c EXCEPT !.state = t, !.vox = v, !.sub = 1] \in Flow
        BY <1>1, <2>2, Constants, FlowState
      <4> QED BY <2>4, <4>1
    <3>2. /\ d.state = t /\ d.act = c.act /\ d.stop = c.stop /\ d.load = c.load
          /\ d.sound = c.sound /\ d.count = c.count /\ d.subtitle = c.subtitle /\ d.demo = c.demo
          /\ d.left = c.left /\ d.due = c.due /\ d.proc = c.proc /\ d.runs = c.runs
          /\ d.slot = c.slot /\ d.asked = c.asked
      <4>1. CASE d = [c EXCEPT !.state = t]
        BY <1>1, <4>1, SMT DEF Flow
      <4>2. CASE d = [c EXCEPT !.state = t, !.vox = v, !.sub = 1]
        BY <1>1, <4>2, SMT DEF Flow
      <4> QED BY <2>4, <4>1, <4>2
    <3>3. t # 0
      BY <2>1
    <3>4. Streaming(d)
      BY <1>1, <1>3, <3>2, <3>3 DEF StreamOK, Streaming, Users, Silent
    <3>5. Coming(d) /\ Owing(d)
      BY <1>1, <1>3, <3>2, <3>3 DEF StreamOK, Coming, Owing, Owes
    <3> QED BY <3>1, <3>2, <3>4, <3>5 DEF StreamOK
  <2> QED BY <2>1, <2>3, <2>4
<1> QED BY <1>2, <1>3

LEMMA StreamActOK ==
  ASSUME NEW c, StreamOK(c), c.sound # "asked", NEW d, d = StreamAct(c)
  PROVE  StreamOK(d) /\ (c.load # "none" => d.load = c.load)
<1>1. c \in Flow /\ c.act \in ActState
  BY SMT DEF StreamOK, Flow
<1>2. CASE c.act = "none"
  BY <1>2 DEF StreamAct
<1>3. CASE c.act = "play"
  <2> DEFINE e == FS_StreamSync(c)
  <2>1. /\ StreamOK(e) /\ e.load = c.load /\ e.act = c.act /\ e.sound = c.sound
    BY SyncOK
  <2>2. d = Play(e)
    BY <1>3 DEF StreamAct
  <2> HIDE DEF e
  <2>3. StreamOK(d) /\ d.load = e.load
    BY <1>3, <2>1, <2>2, PlayOK
  <2> QED BY <2>1, <2>3
<1>4. CASE c.act = "drain"
  <2>1. d = c \/ d = [c EXCEPT !.act = "marked"]
    BY <1>4 DEF StreamAct
  <2>2. CASE d = [c EXCEPT !.act = "marked"]
    <3>1. d \in Flow
      <4>1. "marked" \in ActState
        BY DEF ActState
      <4> QED BY <1>1, <2>2, <4>1, FlowAct
    <3>2. /\ d.state = c.state /\ d.act = "marked" /\ d.stop = c.stop /\ d.load = c.load
          /\ d.sound = c.sound /\ d.count = c.count /\ d.subtitle = c.subtitle /\ d.demo = c.demo
          /\ d.left = c.left /\ d.due = c.due /\ d.proc = c.proc /\ d.runs = c.runs
          /\ d.slot = c.slot /\ d.asked = c.asked
      BY <1>1, <2>2, SMT DEF Flow
    <3>3. Streaming(d)
      BY <1>4, <3>2 DEF StreamOK, Streaming, Users, Silent
    <3>4. Coming(d) /\ Owing(d)
      BY <3>2 DEF StreamOK, Coming, Owing, Owes
    <3> QED BY <3>1, <3>2, <3>3, <3>4 DEF StreamOK
  <2> QED BY <2>1, <2>2
<1>5. CASE c.act = "marked"
  <2>1. d = StreamDie(c)
    BY <1>5 DEF StreamAct
  <2> QED BY <1>5, <2>1, DieOK
<1> QED BY <1>1, <1>2, <1>3, <1>4, <1>5 DEF ActState

(*------------------------ the users of the ring --------------------------*)

\* One user comes, goes on or leaves; the rest of the stream stays.
LEMMA UserChange ==
  ASSUME NEW c, StreamOK(c), NEW d \in Flow,
         d.state = c.state, d.act = c.act, Ahead(d) = Ahead(c), Owed(d) = Owed(c),
         d.count = Users(d), c.state # 3 \/ c.act # "play" => Silent(d),
         d.demo # "none" => c.demo # "none",
         ~d.stop /\ (d.subtitle = "marked" \/ (d.subtitle = "shown" /\ d.sound # "playing"))
           => c.left = <<>>
  PROVE  StreamOK(d)
<1>1. d.left = c.left /\ d.due = c.due /\ d.proc = c.proc /\ d.slot = c.slot
      /\ d.runs = c.runs /\ d.asked = c.asked
  BY DEF Ahead, Owed
<1>2. Streaming(d)
  BY DEF StreamOK, Streaming
<1>3. Coming(d)
  BY <1>1 DEF StreamOK, Coming
<1>4. Owing(d)
  BY <1>1 DEF StreamOK, Owing, Owes
<1> QED BY <1>2, <1>3, <1>4 DEF StreamOK

LEMMA SubtitleActOK ==
  ASSUME NEW c, StreamOK(c), NEW d, d = SubtitleAct(c)
  PROVE  StreamOK(d) /\ d.load = c.load /\ d.sound = c.sound
<1>1. c \in Flow /\ c.count \in Int /\ c.subtitle \in SubtitleState
  BY SMT DEF StreamOK, Flow
<1>2. /\ c.count = Users(c)
      /\ c.state # 3 \/ c.act # "play" => Silent(c)
      /\ ~c.stop /\ (c.subtitle = "marked" \/ (c.subtitle = "shown" /\ c.sound # "playing"))
           => c.left = <<>>
  BY DEF StreamOK, Streaming, Coming
<1>3. CASE c.subtitle = "none"
  BY <1>3 DEF SubtitleAct
<1>4. CASE c.subtitle = "marked"
  <2> DEFINE e == FS_StreamClose(c)
             n == c.count - 1
  <2>1. d = [e EXCEPT !.subtitle = "none"]
    BY <1>4 DEF SubtitleAct
  <2>2. e \in Flow
    <3>1. n \in Int
      BY <1>1
    <3>2. e = [c EXCEPT !.count = n]
      BY DEF FS_StreamClose
    <3>3. [c EXCEPT !.count = n] \in Flow
      BY <1>1, <3>1, FlowCount
    <3> QED BY <3>2, <3>3
  <2>3. /\ e.state = c.state /\ e.act = c.act /\ e.stop = c.stop /\ e.load = c.load
        /\ e.sound = c.sound /\ e.demo = c.demo /\ e.count = c.count - 1
        /\ Ahead(e) = Ahead(c) /\ Owed(e) = Owed(c)
    BY <1>1, SMT DEF Flow, FS_StreamClose, Ahead, Owed
  <2> HIDE DEF e
  <2>4. d \in Flow
    <3>1. "none" \in SubtitleState
      BY DEF SubtitleState
    <3>2. [e EXCEPT !.subtitle = "none"] \in Flow
      BY <2>2, <3>1, FlowSubtitle
    <3> QED BY <2>1, <3>2
  <2>5. /\ d.state = e.state /\ d.act = e.act /\ d.stop = e.stop /\ d.load = e.load
        /\ d.sound = e.sound /\ d.demo = e.demo /\ d.count = e.count /\ d.subtitle = "none"
        /\ Ahead(d) = Ahead(e) /\ Owed(d) = Owed(e)
    BY <2>1, <2>2, SMT DEF Flow, Ahead, Owed
  <2>6. d.count = Users(d)
    BY <1>2, <1>4, <2>3, <2>5 DEF Users, Opened
  <2>7. c.state # 3 \/ c.act # "play" => Silent(d)
    BY <1>2, <1>4 DEF Silent
  <2>8. StreamOK(d)
    BY <2>3, <2>4, <2>5, <2>6, <2>7, UserChange
  <2> QED BY <2>3, <2>5, <2>8
<1>5. CASE c.subtitle \in {"waits", "shown"}
  <2> DEFINE x == CASE c.stop -> "marked"
                    [] ~c.stop /\ c.sound = "playing" -> "shown"
                    [] OTHER -> IF c.subtitle = "shown" THEN "marked" ELSE c.subtitle
  <2>1. c.stop \in BOOLEAN
    BY <1>1, SMT DEF Flow
  <2>2. x \in SubtitleState /\ x # "none"
        /\ (~c.stop /\ (x = "marked" \/ (x = "shown" /\ c.sound # "playing")) => c.left = <<>>)
    <3>1. CASE c.stop
      BY <3>1 DEF SubtitleState
    <3>2. CASE ~c.stop /\ c.sound = "playing"
      BY <3>2 DEF SubtitleState
    <3>3. CASE ~c.stop /\ c.sound # "playing"
      <4>1. x = IF c.subtitle = "shown" THEN "marked" ELSE c.subtitle
        BY <3>3
      <4> HIDE DEF x
      <4> QED BY <1>2, <1>5, <3>3, <4>1 DEF SubtitleState
    <3> QED BY <3>1, <3>2, <3>3
  <2>3. d = [c EXCEPT !.subtitle = x]
    BY <1>5 DEF SubtitleAct
  <2> HIDE DEF x
  <2>4. d \in Flow
    <3>1. [c EXCEPT !.subtitle = x] \in Flow
      BY <1>1, <2>2, FlowSubtitle
    <3> QED BY <2>3, <3>1
  <2>5. /\ d.state = c.state /\ d.act = c.act /\ d.stop = c.stop /\ d.load = c.load
        /\ d.sound = c.sound /\ d.demo = c.demo /\ d.count = c.count /\ d.subtitle = x
        /\ Ahead(d) = Ahead(c) /\ Owed(d) = Owed(c)
    BY <1>1, <2>3, SMT DEF Flow, Ahead, Owed
  <2>6. d.count = Users(d)
    BY <1>2, <1>5, <2>2, <2>5 DEF Users, Opened
  <2>7. c.state # 3 \/ c.act # "play" => Silent(d)
    BY <1>2, <1>5 DEF Silent
  <2>8. StreamOK(d)
    BY <2>2, <2>4, <2>5, <2>6, <2>7, UserChange
  <2> QED BY <2>5, <2>8
<1> QED BY <1>1, <1>3, <1>4, <1>5 DEF SubtitleState

LEMMA DemoActOK ==
  ASSUME NEW c, StreamOK(c), NEW d \in DemoAct(c)
  PROVE  StreamOK(d) /\ d.load = c.load /\ d.sound = c.sound
<1>1. c \in Flow /\ c.count \in Int /\ c.demo \in DemoState /\ c.stop \in BOOLEAN
  BY SMT DEF StreamOK, Flow
<1>2. /\ c.count = Users(c)
      /\ c.state # 3 \/ c.act # "play" => Silent(c)
      /\ ~c.stop /\ (c.subtitle = "marked" \/ (c.subtitle = "shown" /\ c.sound # "playing"))
           => c.left = <<>>
  BY DEF StreamOK, Streaming, Coming
<1>3. \/ d = c
      \/ c.demo # "none" /\ \E x \in DemoState \ {"none"} :
           d = [c EXCEPT !.demo = x] \/ d = [FS_StreamStop(c) EXCEPT !.demo = x]
      \/ c.demo = "marked" /\ d = [FS_StreamClose(c) EXCEPT !.demo = "none", !.cutscene = FALSE]
  <2>1. {"running", "marked"} \subseteq DemoState \ {"none"}
    BY DEF DemoState
  <2>2. CASE c.demo \in {"none", "first"}
    BY <2>2 DEF DemoAct
  <2>3. CASE c.demo = "block"
    BY <2>1, <2>3 DEF DemoAct
  <2>4. CASE c.demo = "running"
    BY <2>1, <2>4 DEF DemoAct
  <2>5. CASE c.demo = "last"
    BY <2>1, <2>5 DEF DemoAct
  <2>6. CASE c.demo = "marked"
    BY <2>6 DEF DemoAct
  <2> QED BY <1>1, <2>2, <2>3, <2>4, <2>5, <2>6 DEF DemoState
<1>4. CASE d = c
  BY <1>4
<1>5. ASSUME c.demo # "none", NEW x \in DemoState, x # "none", NEW e, e = c \/ e = FS_StreamStop(c),
             d = [e EXCEPT !.demo = x]
      PROVE  StreamOK(d) /\ d.load = c.load /\ d.sound = c.sound
  <2>1. /\ e \in Flow /\ e.state = c.state /\ e.act = c.act /\ e.load = c.load /\ (c.stop => e.stop)
        /\ e.sound = c.sound /\ e.subtitle = c.subtitle /\ e.count = c.count
        /\ Ahead(e) = Ahead(c) /\ Owed(e) = Owed(c)
    <3>1. CASE e = c
      BY <1>1, <3>1
    <3>2. CASE e = FS_StreamStop(c)
      <4>1. FS_StreamStop(c) \in Flow
        BY <1>1, Constants, FlowStop, Zenon DEF FS_StreamStop
      <4>2. e.stop
        BY <1>1, <3>2, SMT DEF FS_StreamStop, Flow
      <4>3. /\ e.state = c.state /\ e.act = c.act /\ e.load = c.load
            /\ e.sound = c.sound /\ e.subtitle = c.subtitle /\ e.count = c.count
            /\ Ahead(e) = Ahead(c) /\ Owed(e) = Owed(c)
        BY <1>1, <3>2, SMT DEF FS_StreamStop, Flow, Ahead, Owed
      <4> QED BY <3>2, <4>1, <4>2, <4>3
    <3> QED BY <1>5, <3>1, <3>2
  <2>2. d \in Flow
    <3>1. [e EXCEPT !.demo = x] \in Flow
      BY <2>1, FlowDemo
    <3> QED BY <1>5, <3>1
  <2>3. /\ d.state = e.state /\ d.act = e.act /\ d.stop = e.stop /\ d.load = e.load
        /\ d.sound = e.sound /\ d.subtitle = e.subtitle /\ d.count = e.count /\ d.demo = x
        /\ Ahead(d) = Ahead(e) /\ Owed(d) = Owed(e)
    <3>1. e \in Flow
      BY <2>1
    <3> QED BY <1>5, <3>1, SMT DEF Flow, Ahead, Owed
  <2>4. d.count = Users(d)
    BY <1>2, <1>5, <2>1, <2>3 DEF Users, Opened
  <2>5. c.state # 3 \/ c.act # "play" => Silent(d)
    BY <1>2, <1>5 DEF Silent
  <2>6. ~d.stop /\ (d.subtitle = "marked" \/ (d.subtitle = "shown" /\ d.sound # "playing"))
           => c.left = <<>>
    BY <1>2, <2>1, <2>3
  <2>7. StreamOK(d)
    BY <1>5, <2>1, <2>2, <2>3, <2>4, <2>5, <2>6, UserChange
  <2> QED BY <2>1, <2>3, <2>7
<1>6. CASE c.demo = "marked" /\ d = [FS_StreamClose(c) EXCEPT !.demo = "none", !.cutscene = FALSE]
  <2> DEFINE e == FS_StreamClose(c)
             n == c.count - 1
  <2>1. e \in Flow
    <3>1. n \in Int
      BY <1>1
    <3>2. e = [c EXCEPT !.count = n]
      BY DEF FS_StreamClose
    <3>3. [c EXCEPT !.count = n] \in Flow
      BY <1>1, <3>1, FlowCount
    <3> QED BY <3>2, <3>3
  <2>2. /\ e.state = c.state /\ e.act = c.act /\ e.stop = c.stop /\ e.load = c.load
        /\ e.sound = c.sound /\ e.subtitle = c.subtitle /\ e.count = c.count - 1
        /\ Ahead(e) = Ahead(c) /\ Owed(e) = Owed(c)
    BY <1>1, SMT DEF Flow, FS_StreamClose, Ahead, Owed
  <2>3. d = [e EXCEPT !.demo = "none", !.cutscene = FALSE]
    BY <1>6
  <2> HIDE DEF e
  <2>4. d \in Flow
    <3>1. "none" \in DemoState
      BY DEF DemoState
    <3>2. [e EXCEPT !.demo = "none", !.cutscene = FALSE] \in Flow
      BY <2>1, <3>1, Constants, FlowCut
    <3> QED BY <2>3, <3>2
  <2>5. /\ d.state = e.state /\ d.act = e.act /\ d.stop = e.stop /\ d.load = e.load
        /\ d.sound = e.sound /\ d.subtitle = e.subtitle /\ d.count = e.count /\ d.demo = "none"
        /\ Ahead(d) = Ahead(e) /\ Owed(d) = Owed(e)
    BY <2>1, <2>3, SMT DEF Flow, Ahead, Owed
  <2>6. d.count = Users(d)
    BY <1>2, <1>6, <2>2, <2>5 DEF Users, Opened
  <2>7. c.state # 3 \/ c.act # "play" => Silent(d)
    BY <1>2, <1>6 DEF Silent
  <2>8. ~d.stop /\ (d.subtitle = "marked" \/ (d.subtitle = "shown" /\ d.sound # "playing"))
           => c.left = <<>>
    BY <1>2, <2>2, <2>5
  <2>9. StreamOK(d)
    BY <2>2, <2>4, <2>5, <2>6, <2>7, <2>8, UserChange
  <2> QED BY <2>2, <2>5, <2>9
<1> QED BY <1>3, <1>4, <1>5, <1>6

LEMMA SoundOK ==
  ASSUME StreamOK(g), SoundTask
  PROVE  StreamOK(g)' /\ g'.load = g.load /\ g'.state = g.state /\ g'.sound # "asked"
<1>1. g \in Flow /\ g.count \in Int /\ g.sound \in SoundState
  BY SMT DEF StreamOK, Flow
<1>2. /\ g.count = Users(g)
      /\ g.state # 3 \/ g.act # "play" => Silent(g)
      /\ ~g.stop /\ (g.subtitle = "marked" \/ (g.subtitle = "shown" /\ g.sound # "playing"))
           => g.left = <<>>
  BY DEF StreamOK, Streaming, Coming
<1>3. PICK x \in {"off", "opened", "playing", "closing"}, e \in {g, FS_StreamOpen(g), FS_StreamClose(g)} :
        /\ g' = [e EXCEPT !.sound = x]
        /\ g.sound # "off" /\ (~g.stop /\ g.sound = "playing" => g.left = <<>>)
        /\ \/ g.sound = "asked" /\ x = "opened" /\ e = FS_StreamOpen(g)
           \/ g.sound \in {"opened", "playing", "closing"} /\ x = "off" /\ e = FS_StreamClose(g)
           \/ g.sound \in {"opened", "playing", "closing"} /\ x \in {"playing", "closing"} /\ e = g
        /\ ~g.stop /\ x # "playing" => g.sound # "playing" \/ g.left = <<>>
  <2>1. CASE SoundOpens
    BY <2>1 DEF SoundOpens
  <2>2. CASE SoundStarts
    BY <2>2 DEF SoundStarts
  <2>3. CASE SoundEnds
    BY <2>3 DEF SoundEnds
  <2>4. CASE SoundCloses
    BY <2>4 DEF SoundCloses
  <2> QED BY <2>1, <2>2, <2>3, <2>4 DEF SoundTask
<1>4. \E n \in Int : e = g \/ e = [g EXCEPT !.count = n]
  <2>1. g.count + 1 \in Int /\ g.count - 1 \in Int
    BY <1>1
  <2>2. FS_StreamOpen(g) = [g EXCEPT !.count = g.count + 1]
        /\ FS_StreamClose(g) = [g EXCEPT !.count = g.count - 1]
    BY DEF FS_StreamOpen, FS_StreamClose
  <2>3. e \in {g, [g EXCEPT !.count = g.count + 1], [g EXCEPT !.count = g.count - 1]}
    BY <2>2
  <2>4. CASE e = g
    BY <2>1, <2>4
  <2>5. CASE e = [g EXCEPT !.count = g.count + 1]
    BY <2>1, <2>5, Zenon
  <2>6. CASE e = [g EXCEPT !.count = g.count - 1]
    BY <2>1, <2>6, Zenon
  <2> QED BY <2>3, <2>4, <2>5, <2>6
<1>5. e \in Flow
  <2>1. \A n \in Int : [g EXCEPT !.count = n] \in Flow
    BY <1>1, FlowCount
  <2> QED BY <1>1, <1>4, <2>1
<1>6. /\ e.state = g.state /\ e.act = g.act /\ e.stop = g.stop /\ e.load = g.load
      /\ e.subtitle = g.subtitle /\ e.demo = g.demo /\ Ahead(e) = Ahead(g) /\ Owed(e) = Owed(g)
  <2>1. CASE e = g
    BY <2>1
  <2>2. ASSUME NEW n \in Int, e = [g EXCEPT !.count = n]
        PROVE  /\ e.state = g.state /\ e.act = g.act /\ e.stop = g.stop /\ e.load = g.load
               /\ e.subtitle = g.subtitle /\ e.demo = g.demo /\ Ahead(e) = Ahead(g)
               /\ Owed(e) = Owed(g)
    BY <1>1, <2>2, SMT DEF Flow, Ahead, Owed
  <2> QED BY <1>4, <2>1, <2>2
<1>7. e.count = IF e = g THEN g.count ELSE IF x = "off" THEN g.count - 1 ELSE g.count + 1
  <2>1. FS_StreamOpen(g).count = g.count + 1 /\ FS_StreamClose(g).count = g.count - 1
    BY <1>1, SMT DEF Flow, FS_StreamOpen, FS_StreamClose
  <2>2. g.count + 1 # g.count /\ g.count - 1 # g.count
    BY <1>1
  <2> QED BY <1>3, <2>1, <2>2
<1>8. g' \in Flow
  <2>1. x \in SoundState
    BY DEF SoundState
  <2>2. [e EXCEPT !.sound = x] \in Flow
    BY <1>5, <2>1, FlowSound
  <2> QED BY <1>3, <2>2
<1>9. /\ g'.state = e.state /\ g'.act = e.act /\ g'.stop = e.stop /\ g'.load = e.load
      /\ g'.subtitle = e.subtitle /\ g'.demo = e.demo /\ g'.count = e.count /\ g'.sound = x
      /\ Ahead(g') = Ahead(e) /\ Owed(g') = Owed(e)
  <2>1. g' = [e EXCEPT !.sound = x]
    BY <1>3
  <2> QED BY <1>5, <2>1, SMT DEF Flow, Ahead, Owed
<1>10. g'.count = Users(g')
  <2>1. FS_StreamOpen(g) # g /\ FS_StreamClose(g) # g
    <3>1. FS_StreamOpen(g).count = g.count + 1 /\ FS_StreamClose(g).count = g.count - 1
      BY <1>1, SMT DEF Flow, FS_StreamOpen, FS_StreamClose
    <3> QED BY <1>1, <3>1
  <2>2. Opened(g.subtitle # "none") \in Int /\ Opened(g.demo # "none") \in Int
    BY DEF Opened
  <2>3. CASE g.sound = "asked" /\ x = "opened" /\ e = FS_StreamOpen(g)
    BY <1>1, <1>2, <1>6, <1>7, <1>9, <2>1, <2>2, <2>3 DEF Users, Opened
  <2>4. CASE g.sound \in {"opened", "playing", "closing"} /\ x = "off" /\ e = FS_StreamClose(g)
    BY <1>1, <1>2, <1>6, <1>7, <1>9, <2>1, <2>2, <2>4 DEF Users, Opened
  <2>5. CASE g.sound \in {"opened", "playing", "closing"} /\ x \in {"playing", "closing"} /\ e = g
    BY <1>1, <1>2, <1>6, <1>7, <1>9, <2>1, <2>2, <2>5 DEF Users, Opened
  <2> QED BY <1>3, <2>3, <2>4, <2>5
<1>11. g.state # 3 \/ g.act # "play" => Silent(g')
  BY <1>2, <1>3 DEF Silent
<1>12. ~g'.stop /\ (g'.subtitle = "marked" \/ (g'.subtitle = "shown" /\ g'.sound # "playing"))
         => g.left = <<>>
  BY <1>2, <1>3, <1>6, <1>9
<1>13. StreamOK(g')
  BY <1>6, <1>8, <1>9, <1>10, <1>11, <1>12, UserChange
<1> QED BY <1>3, <1>6, <1>9, <1>13

LEMMA DiskOK ==
  ASSUME StreamOK(g), Filled \/ ReadEnd \/ Due \/ DemoBlock
  PROVE  StreamOK(g)' /\ g'.load = g.load /\ g'.state = g.state /\ g'.sound = g.sound
<1>1. g \in Flow /\ g.due \in Nat /\ g.left \in Seq(Kind) /\ g.demo \in DemoState
  BY SMT DEF StreamOK, Flow
<1>2. CASE Filled \/ ReadEnd
  <2>1. PICK v \in BOOLEAN : g' = [g EXCEPT !.read = v] \/ g' = [g EXCEPT !.end = v]
    BY <1>2, Constants DEF Filled, ReadEnd
  <2>2. g' \in Flow
    <3>1. [g EXCEPT !.read = v] \in Flow /\ [g EXCEPT !.end = v] \in Flow
      BY <1>1, Constants, FlowReader
    <3> QED BY <2>1, <3>1
  <2>3. /\ g'.state = g.state /\ g'.act = g.act /\ g'.stop = g.stop /\ g'.load = g.load
        /\ g'.sound = g.sound /\ Ring(g') = Ring(g) /\ Ahead(g') = Ahead(g) /\ Owed(g') = Owed(g)
    <3>1. CASE g' = [g EXCEPT !.read = v]
      BY <1>1, <3>1, SMT DEF Flow, Ring, Ahead, Owed
    <3>2. CASE g' = [g EXCEPT !.end = v]
      BY <1>1, <3>2, SMT DEF Flow, Ring, Ahead, Owed
    <3> QED BY <2>1, <3>1, <3>2
  <2>4. StreamOK(g')
    BY <2>2, <2>3, Whole
  <2> QED BY <2>3, <2>4
<1>3. CASE Due
  <2> DEFINE n == g.due + 1
  <2>1. g.state = 3 /\ ~g.stop /\ g.due < Len(g.left) /\ g' = [g EXCEPT !.due = n]
    BY <1>3 DEF Due
  <2>2. n \in Nat /\ Len(g.left) \in Nat
    BY <1>1
  <2>3. n <= Len(g.left)
    BY <1>1, <2>1, <2>2
  <2> HIDE DEF n
  <2>4. g' \in Flow
    <3>1. [g EXCEPT !.due = n] \in Flow
      BY <1>1, <2>2, Constants, FlowReader
    <3> QED BY <2>1, <3>1
  <2>5. /\ g'.state = g.state /\ g'.act = g.act /\ g'.stop = g.stop /\ g'.load = g.load
        /\ g'.sound = g.sound /\ g'.count = g.count /\ g'.subtitle = g.subtitle
        /\ g'.demo = g.demo /\ g'.left = g.left /\ g'.due = n /\ g'.proc = g.proc
        /\ g'.slot = g.slot /\ g'.runs = g.runs /\ g'.asked = g.asked
    <3>1. g' = [g EXCEPT !.due = n]
      BY <2>1
    <3> QED BY <1>1, <3>1, SMT DEF Flow
  <2>6. Streaming(g') /\ Owing(g')
    BY <2>5 DEF StreamOK, Streaming, Owing, Owes, Users, Silent
  <2>7. Coming(g')
    BY <2>1, <2>3, <2>5 DEF StreamOK, Coming
  <2> QED BY <2>4, <2>5, <2>6, <2>7 DEF StreamOK
<1>4. CASE DemoBlock
  <2>1. PICK x \in DemoState \ {"none"} : g' = [g EXCEPT !.demo = x]
    BY <1>4 DEF DemoBlock, DemoState
  <2>2. g.demo # "none"
    BY <1>4 DEF DemoBlock
  <2>3. g' \in Flow
    <3>1. [g EXCEPT !.demo = x] \in Flow
      BY <1>1, <2>1, FlowDemo
    <3> QED BY <2>1, <3>1
  <2>4. /\ g'.state = g.state /\ g'.act = g.act /\ g'.stop = g.stop /\ g'.load = g.load
        /\ g'.sound = g.sound /\ g'.count = g.count /\ g'.subtitle = g.subtitle
        /\ g'.demo = x /\ Ahead(g') = Ahead(g) /\ Owed(g') = Owed(g)
    BY <1>1, <2>1, SMT DEF Flow, Ahead, Owed
  <2>5. g'.count = Users(g')
    BY <2>1, <2>2, <2>4 DEF StreamOK, Streaming, Users, Opened
  <2>6. g.state # 3 \/ g.act # "play" => Silent(g')
    BY <2>2 DEF StreamOK, Streaming, Silent
  <2>7. ~g'.stop /\ (g'.subtitle = "marked" \/ (g'.subtitle = "shown" /\ g'.sound # "playing"))
         => g.left = <<>>
    BY <2>4 DEF StreamOK, Coming
  <2>8. StreamOK(g')
    BY <2>2, <2>3, <2>4, <2>5, <2>6, <2>7, UserChange
  <2> QED BY <2>4, <2>8
<1> QED BY <1>2, <1>3, <1>4

(*------------------------- those who hold the ring -----------------------*)

LEMMA UsersCount ==
  ASSUME NEW c, StreamOK(c)
  PROVE  Cardinality({u \in {"sound", "subtitle", "demo"} :
           CASE u = "sound"    -> c.sound \in {"opened", "playing", "closing"}
             [] u = "subtitle" -> c.subtitle # "none"
             [] u = "demo"     -> c.demo # "none"}) = Users(c)
<1> DEFINE P(u) == CASE u = "sound"    -> c.sound \in {"opened", "playing", "closing"}
                     [] u = "subtitle" -> c.subtitle # "none"
                     [] u = "demo"     -> c.demo # "none"
           U == {u \in {"sound", "subtitle", "demo"} : P(u)}
           A == IF c.sound \in {"opened", "playing", "closing"} THEN {"sound"} ELSE {}
           B == IF c.subtitle # "none" THEN A \cup {"subtitle"} ELSE A
           C == IF c.demo # "none" THEN B \cup {"demo"} ELSE B
<1>1. /\ P("sound") <=> c.sound \in {"opened", "playing", "closing"}
      /\ P("subtitle") <=> c.subtitle # "none"
      /\ P("demo") <=> c.demo # "none"
  OBVIOUS
<1>2. U = C
  <2> HIDE DEF P
  <2> QED BY <1>1
<1>3. IsFiniteSet(A) /\ Cardinality(A) = Opened(c.sound \in {"opened", "playing", "closing"})
  BY FS_EmptySet, FS_Singleton DEF Opened
<1>4. IsFiniteSet(B) /\ Cardinality(B) = Cardinality(A) + Opened(c.subtitle # "none")
  <2>1. "subtitle" \notin A /\ Cardinality(A) \in Nat
    BY <1>3, FS_CardinalityType
  <2> HIDE DEF A
  <2>2. CASE c.subtitle # "none"
    <3>1. B = A \cup {"subtitle"}
      BY <2>2
    <3> HIDE DEF B
    <3> QED BY <1>3, <2>1, <2>2, <3>1, FS_AddElement DEF Opened
  <2>3. CASE c.subtitle = "none"
    BY <1>3, <2>1, <2>3 DEF Opened
  <2> QED BY <2>2, <2>3
<1>5. Cardinality(C) = Cardinality(B) + Opened(c.demo # "none")
  <2>1. "demo" \notin B /\ Cardinality(B) \in Nat
    BY <1>4, FS_CardinalityType
  <2> HIDE DEF B
  <2>2. CASE c.demo # "none"
    <3>1. C = B \cup {"demo"}
      BY <2>2
    <3> HIDE DEF C
    <3> QED BY <1>4, <2>1, <2>2, <3>1, FS_AddElement DEF Opened
  <2>3. CASE c.demo = "none"
    BY <1>4, <2>1, <2>3 DEF Opened
  <2> QED BY <2>2, <2>3
<1>6. Cardinality(U) = Users(c)
  <2> HIDE DEF U, A, B, C
  <2> QED BY <1>2, <1>3, <1>4, <1>5 DEF Users
<1> QED BY <1>6

(*---------------------------- the frame ----------------------------------*)

LEMMA StreamType ==
  ASSUME NEW c, StreamOK(c)
  PROVE  /\ c.state \in 0..3 /\ c.sub \in 0..2 /\ c.task \in -1..1
         /\ c.act \in {"none", "play", "drain", "marked"}
         /\ c.proc \in WithProc \cup {None} /\ c.slot \in Streams \cup {None}
         /\ c.load \in {"none", "stage", "here"}
  BY SMT DEF StreamOK, Flow, ActState, LoadState

\* What the frame's invariant says but of the stream.
FrameOK ==
  /\ gamed \in [status : {"wait_load", "working"}, killing : 0..3]
  /\ timer \in -1..GameOverDelay /\ complete \in -1..1
  /\ pause \subseteq {"stop", "pause", "menu", "err"}
  /\ menu \in {"closed", "items", "codec"}
  /\ over \in {"none", "rises", "shown", "asks", "leaves", "marked"}
  /\ cancel \in {"none", "watch", "fades", "marked"}
  /\ stage \in {"none", "live", "marked"}
  /\ Turns /\ Pausing /\ Dying /\ Loading

LEMMA Parts == IInv <=> StreamOK(g) /\ FrameOK
  BY StreamType DEF IInv, TypeOK, FrameOK

LEMMA PartsNext == StreamOK(g') /\ FrameOK' => IInv'
  BY StreamType DEF IInv, TypeOK, FrameOK

LEMMA OverActInv ==
  ASSUME IInv, OverAct
  PROVE  IInv'
<1>1. StreamOK(g) /\ FrameOK
  BY Parts
<1>2. StreamOK(g') /\ g'.load = g.load /\ g'.sound = g.sound
  <2>1. g' = g \/ g' = GM_StreamPlayStart(g)
    BY DEF OverAct
  <2> QED BY <1>1, <2>1, PlayStartOK
<1>3. FrameOK'
  <2>1. CASE UNCHANGED <<g, pause, over>>
    BY <1>1, <2>1 DEF FrameOK, OverAct, StartTurn, Turn, Turns, Pausing, Dying, Loading
  <2>2. CASE over \in {"rises", "shown", "asks", "leaves"}
    <3>1. timer = -1 /\ gamed = [status |-> "working", killing |-> 0]
      BY <1>1, <2>2 DEF FrameOK, Pausing
    <3>2. gamed.status = "working" /\ gamed.killing = 0
      BY <3>1
    <3>3. over' \in {"none", "rises", "shown", "asks", "leaves", "marked"}
          /\ pause' \subseteq {"stop", "pause", "menu", "err"} /\ turn' = "menus"
      BY <1>1, <2>2 DEF FrameOK, OverAct, StartTurn, Turn
    <3>4. UNCHANGED <<gamed, timer, complete, menu, cancel, stage>>
      BY DEF OverAct
    <3> QED BY <1>1, <3>1, <3>2, <3>3, <3>4 DEF FrameOK, Turns, Pausing, Dying, Loading
  <2> QED BY <2>1, <2>2 DEF OverAct
<1> QED BY <1>2, <1>3, PartsNext

LEMMA OverDieInv ==
  ASSUME IInv, OverDie
  PROVE  IInv'
<1>1. StreamOK(g) /\ FrameOK
  BY Parts
<1>2. StreamOK(g')
  <2>1. PICK l \in LoadState : g' = [GM_StreamPlayStop(g) EXCEPT !.load = l]
    BY DEF OverDie, LoadState
  <2> DEFINE e == GM_StreamPlayStop(g)
  <2>2. StreamOK(e) /\ e \in Flow
    BY <1>1, PlayStopOK DEF StreamOK
  <2> HIDE DEF e
  <2>3. g' = [e EXCEPT !.load = l]
    BY <2>1 DEF e
  <2>4. g' \in Flow
    <3>1. [e EXCEPT !.load = l] \in Flow
      BY <2>2, FlowLoad
    <3> QED BY <2>3, <3>1
  <2>5. /\ g'.state = e.state /\ g'.act = e.act /\ g'.stop = e.stop
        /\ Ring(g') = Ring(e) /\ Ahead(g') = Ahead(e) /\ Owed(g') = Owed(e)
    BY <2>2, <2>3, SMT DEF Flow, Ring, Ahead, Owed
  <2> QED BY <2>2, <2>4, <2>5, Whole
<1>3. FrameOK'
  <2>1. timer = -1 /\ gamed = [status |-> "working", killing |-> 0]
    BY <1>1 DEF FrameOK, Pausing, OverDie
  <2>2. gamed.status = "working" /\ gamed.killing = 0
    BY <2>1
  <2>3. menu # "codec"
    BY <1>1, <2>1 DEF FrameOK, Pausing
  <2>4. timer' = 0 /\ over' = "none" /\ turn' = "menus" /\ pause' \subseteq pause
        /\ UNCHANGED <<gamed, complete, menu, cancel, stage>>
    BY DEF OverDie, StartTurn, Turn
  <2>5. 0 \in -1 .. GameOverDelay
    BY StageAssumption
  <2> QED BY <1>1, <2>2, <2>3, <2>4, <2>5 DEF FrameOK, Turns, Pausing, Dying, Loading
<1> QED BY <1>2, <1>3, PartsNext

LEMMA MenusInv ==
  ASSUME IInv, Menus
  PROVE  IInv'
<1>1. StreamOK(g) /\ FrameOK
  BY Parts
<1>2. StreamOK(g') /\ g'.load = g.load /\ g'.sound = g.sound
  <2>1. g' = g \/ g' = GM_StreamPlayStop(g)
    BY DEF Menus, OpenItems, CloseItems, OpenCodec, CloseCodec, SkipCall
  <2> QED BY <1>1, <2>1, PlayStopOK
<1>3. g.sound # "asked" /\ turn = "menus" /\ turn' = "gamed"
      /\ UNCHANGED <<gamed, timer, complete, over, cancel, stage>>
  BY DEF Menus, StartTurn, Turn
<1>4. CASE UNCHANGED <<g, menu, pause>>
  <2>1. FrameOK'
    BY <1>1, <1>3, <1>4 DEF FrameOK, Turns, Pausing, Dying, Loading
  <2> QED BY <1>2, <2>1, PartsNext
<1>5. CASE MenuRuns /\ (OpenItems \/ CloseItems \/ OpenCodec \/ CloseCodec \/ SkipCall)
  <2>1. g.load = "none" /\ complete > 0
    BY <1>5 DEF MenuRuns
  <2>2. gamed.status = "working" /\ gamed.killing = 0
    <3>1. complete \in -1 .. 1 /\ gamed \in [status : {"wait_load", "working"}, killing : 0..3]
      BY <1>1 DEF FrameOK
    <3>2. gamed.status # "wait_load"
      BY <1>1, <2>1, <3>1 DEF FrameOK, Loading
    <3>3. ~(gamed.killing > 0)
      BY <1>1, <2>1 DEF FrameOK, Dying
    <3> QED BY <3>1, <3>2, <3>3
  <2>3. /\ menu' \in {"closed", "items", "codec"}
        /\ pause' \subseteq {"stop", "pause", "menu", "err"}
        /\ menu' = "codec" => "stop" \in pause' /\ timer = 0
    <3>1. /\ menu \in {"closed", "items", "codec"} /\ pause \subseteq {"stop", "pause", "menu", "err"}
          /\ menu = "codec" => "stop" \in pause /\ timer = 0
      BY <1>1 DEF FrameOK, Pausing
    <3>2. CASE OpenItems
      BY <3>1, <3>2 DEF OpenItems
    <3>3. CASE CloseItems
      BY <3>1, <3>3 DEF CloseItems
    <3>4. CASE OpenCodec
      BY <3>1, <3>4 DEF OpenCodec, MenuOff
    <3>5. CASE CloseCodec
      BY <3>1, <3>5 DEF CloseCodec
    <3>6. CASE SkipCall
      BY <3>1, <3>6 DEF SkipCall
    <3> QED BY <1>5, <3>2, <3>3, <3>4, <3>5, <3>6
  <2>4. FrameOK'
    BY <1>1, <1>2, <1>3, <2>2, <2>3 DEF FrameOK, Turns, Pausing, Dying, Loading
  <2> QED BY <1>2, <2>4, PartsNext
<1> QED BY <1>4, <1>5 DEF Menus

\* What the stage, the codec and the game over screen ask for may be asked for.
LEMMA MayAsk ==
  ASSUME NEW c, NEW s \in Voices \cup Demos \cup {Call, GameOverVox}, s \in Waits \/ s \notin c.asked
  PROVE  May(c, s)
  BY StageAssumption, StreamsAssumption DEF May

LEMMA CodecCallsInv ==
  ASSUME IInv, CodecCalls
  PROVE  IInv'
<1>1. StreamOK(g) /\ FrameOK
  BY Parts
<1>2. /\ g' = Ask(g, Call) /\ Call \notin g.asked /\ menu = "codec"
      /\ UNCHANGED <<turn, gamed, timer, complete, pause, menu, over, cancel, stage>>
  BY DEF CodecCalls
<1>3. May(g, Call)
  BY <1>2, MayAsk
<1>4. StreamOK(g') /\ g'.sound = g.sound /\ (g.load # "none" => g'.load = g.load)
  BY <1>1, <1>2, <1>3, AskOK
<1>5. "stop" \in pause
  BY <1>1, <1>2 DEF FrameOK, Pausing
<1>6. FrameOK'
  BY <1>1, <1>2, <1>4, <1>5 DEF FrameOK, Turns, Pausing, Dying, Loading
<1> QED BY <1>4, <1>6, PartsNext

LEMMA PressOK ==
  ASSUME NEW c, StreamOK(c), NEW d \in Press(c)
  PROVE  StreamOK(d) /\ d.load = c.load /\ d.sound = c.sound
<1>1. d = c \/ d = GM_StreamPlayStop(c)
  BY DEF Press
<1> QED BY <1>1, PlayStopOK

LEMMA Errors ==
  ASSUME NEW p \in ReadErrors
  PROVE  p \subseteq pause \cup {"err"} /\ pause \ {"err"} \subseteq p
  BY DEF ReadErrors

LEMMA ExecScenarioInv ==
  ASSUME IInv, ExecScenario
  PROVE  IInv'
<1>1. StreamOK(g) /\ FrameOK
  BY Parts
<1>2. PICK p \in ReadErrors :
        \/ complete = 0 /\ Gamed(g, p) /\ UNCHANGED <<gamed, complete, stage>>
        \/ /\ complete # 0 /\ Gamed([g EXCEPT !.load = "none"], p)
           /\ complete' = 1 /\ stage' = "live" /\ gamed' = [gamed EXCEPT !.status = "working"]
  BY DEF ExecScenario
<1>3. /\ turn' = "stream" /\ turn = "gamed" /\ pause' = p /\ g.sound # "asked"
      /\ UNCHANGED <<timer, over, cancel, menu>>
  BY <1>1, <1>2 DEF ExecScenario, Gamed, Turn, FrameOK, Turns
<1>4. /\ gamed.status = "wait_load" /\ gamed.killing = 0 /\ pause \subseteq {"err"}
      /\ over = "none" /\ cancel = "none" /\ pause' \subseteq {"err"}
  BY <1>1, <1>2, <1>3, Errors DEF FrameOK, Loading, ExecScenario
<1>5. CASE complete = 0 /\ Gamed(g, p) /\ UNCHANGED <<gamed, complete, stage>>
  <2>1. g' = g
    BY <1>5 DEF Gamed
  <2>2. FrameOK'
    BY <1>1, <1>3, <1>4, <1>5, <2>1 DEF FrameOK, Turns, Pausing, Dying, Loading
  <2> QED BY <1>1, <2>1, <2>2, PartsNext
<1>6. CASE /\ complete # 0 /\ Gamed([g EXCEPT !.load = "none"], p)
           /\ complete' = 1 /\ stage' = "live" /\ gamed' = [gamed EXCEPT !.status = "working"]
  <2>1. g' = [g EXCEPT !.load = "none"]
    BY <1>6 DEF Gamed
  <2>2. g \in Flow
    BY <1>1 DEF StreamOK
  <2>3. g' \in Flow
    <3>1. "none" \in LoadState
      BY DEF LoadState
    <3>2. [g EXCEPT !.load = "none"] \in Flow
      BY <2>2, <3>1, FlowLoad
    <3> QED BY <2>1, <3>2
  <2>4. /\ g'.state = g.state /\ g'.act = g.act /\ g'.stop = g.stop /\ g'.sound = g.sound
        /\ Ring(g') = Ring(g) /\ Ahead(g') = Ahead(g) /\ Owed(g') = Owed(g)
    BY <2>1, <2>2, SMT DEF Flow, Ring, Ahead, Owed
  <2>5. StreamOK(g')
    BY <1>1, <2>3, <2>4, Whole
  <2>6. gamed'.status = "working" /\ gamed'.killing = 0
        /\ gamed' \in [status : {"wait_load", "working"}, killing : 0..3]
    BY <1>1, <1>4, <1>6 DEF FrameOK
  <2>7. menu # "codec"
    BY <1>1, <1>4 DEF FrameOK, Pausing
  <2>8. FrameOK'
    BY <1>1, <1>3, <1>4, <1>6, <2>4, <2>6, <2>7 DEF FrameOK, Turns, Pausing, Dying, Loading
  <2> QED BY <2>5, <2>8, PartsNext
<1> QED BY <1>2, <1>5, <1>6

LEMMA WorkingInv ==
  ASSUME IInv, Working
  PROVE  IInv'
<1>1. StreamOK(g) /\ FrameOK
  BY Parts
<1>2. PICK p \in ReadErrors, c \in Press(g) :
        \/ p \ {"pause"} = {} /\ Gamed(c, IF "pause" \in p THEN {} ELSE {"pause"})
        \/ Gamed(c, IF g.vox \/ g.cutscene THEN p \ {"pause"} ELSE p)
  BY DEF Working
<1>3. g' = c /\ turn = "gamed" /\ turn' = "stream" /\ menu' = menu
  BY <1>2 DEF Gamed, Turn
<1>4. StreamOK(g') /\ g'.load = g.load /\ g'.sound = g.sound
  BY <1>1, <1>2, <1>3, PressOK
<1>5. /\ gamed.status = "working" /\ gamed.killing = 0 /\ timer = 0
      /\ UNCHANGED <<gamed, timer, complete, over, cancel, stage>>
  BY DEF Working
<1>6. /\ pause' \subseteq {"stop", "pause", "menu", "err"}
      /\ "stop" \in pause => "stop" \in pause'
  <2>1. /\ p \subseteq {"stop", "pause", "menu", "err"}
        /\ "stop" \in pause => "stop" \in p
    BY <1>1, Errors DEF FrameOK
  <2>2. CASE p \ {"pause"} = {} /\ Gamed(c, IF "pause" \in p THEN {} ELSE {"pause"})
    BY <2>1, <2>2 DEF Gamed
  <2>3. CASE Gamed(c, IF g.vox \/ g.cutscene THEN p \ {"pause"} ELSE p)
    BY <2>1, <2>3 DEF Gamed
  <2> QED BY <1>2, <2>2, <2>3
<1>7. FrameOK'
  BY <1>1, <1>3, <1>4, <1>5, <1>6 DEF FrameOK, Turns, Pausing, Dying, Loading
<1> QED BY <1>4, <1>7, PartsNext

\* A flag of the record that no function of the stream's invariant reads.
LEMMA FlagOK ==
  ASSUME NEW c, StreamOK(c), NEW v \in BOOLEAN, NEW d,
         d = [c EXCEPT !.over = v] \/ d = [c EXCEPT !.dead = v]
  PROVE  StreamOK(d) /\ d.load = c.load /\ d.sound = c.sound
<1>1. c \in Flow
  BY DEF StreamOK
<1>2. d \in Flow
  <2>1. [c EXCEPT !.over = v] \in Flow /\ [c EXCEPT !.dead = v] \in Flow
    BY <1>1, FlowOver
  <2> QED BY <2>1
<1>3. /\ d.state = c.state /\ d.act = c.act /\ d.stop = c.stop /\ d.sound = c.sound
      /\ d.load = c.load /\ Ring(d) = Ring(c) /\ Ahead(d) = Ahead(c) /\ Owed(d) = Owed(c)
  <2>1. CASE d = [c EXCEPT !.over = v]
    BY <1>1, <2>1, SMT DEF Flow, Ring, Ahead, Owed
  <2>2. CASE d = [c EXCEPT !.dead = v]
    BY <1>1, <2>2, SMT DEF Flow, Ring, Ahead, Owed
  <2> QED BY <2>1, <2>2
<1> QED BY <1>2, <1>3, Whole

LEMMA GameOverTimeInv ==
  ASSUME IInv, GameOverTime
  PROVE  IInv'
<1>1. StreamOK(g) /\ FrameOK
  BY Parts
<1>2. PICK p \in ReadErrors, c \in Press(g) :
        \/ /\ timer' = -1 /\ over' = "rises"
           /\ \E d \in Press([GM_VoxStream(g, GameOverVox) EXCEPT !.over = TRUE]) : Gamed(d, p)
        \/ Gamed(GM_StreamPlayStop(c), p) /\ UNCHANGED <<timer, over>>
        \/ /\ timer' = timer \/ (timer' = timer - 1 /\ timer > 1)
           /\ Gamed(c, p) /\ UNCHANGED over
  BY DEF GameOverTime
<1>3. turn = "gamed" /\ turn' = "stream" /\ menu' = menu /\ pause' = p
      /\ UNCHANGED <<gamed, complete, cancel, stage>>
  BY <1>2 DEF Gamed, Turn, GameOverTime
<1>4. StreamOK(c) /\ c.load = g.load /\ c.sound = g.sound
  BY <1>1, <1>2, PressOK
<1>5. StreamOK(g') /\ g'.sound = g.sound
  <2>1. CASE \E d \in Press([GM_VoxStream(g, GameOverVox) EXCEPT !.over = TRUE]) : Gamed(d, p)
    <3> DEFINE x == GM_VoxStream(g, GameOverVox)
               y == [x EXCEPT !.over = TRUE]
    <3>1. May(g, GameOverVox)
      BY StageAssumption, MayAsk
    <3>2. StreamOK(x) /\ x.sound = g.sound
      BY <1>1, <3>1, VoxOK
    <3>3. \E d \in Press(y) : Gamed(d, p)
      BY <2>1
    <3> HIDE DEF x
    <3>4. StreamOK(y) /\ y.sound = x.sound
      BY <3>2, Constants, FlagOK
    <3> HIDE DEF y
    <3>5. g' \in Press(y)
      BY <3>3 DEF Gamed
    <3> QED BY <3>2, <3>4, <3>5, PressOK
  <2>2. CASE Gamed(GM_StreamPlayStop(c), p)
    <3>1. g' = GM_StreamPlayStop(c)
      BY <2>2 DEF Gamed
    <3> QED BY <1>4, <3>1, PlayStopOK
  <2>3. CASE Gamed(c, p)
    BY <1>4, <2>3 DEF Gamed
  <2> QED BY <1>2, <2>1, <2>2, <2>3
<1>6. /\ gamed.status = "working" /\ gamed.killing = 0 /\ timer # 0
      /\ timer \in -1 .. GameOverDelay /\ GameOverDelay \in Nat
      /\ gamed \in [status : {"wait_load", "working"}, killing : 0..3]
  BY <1>1, StageAssumption DEF FrameOK, GameOverTime
<1>7. gamed = [status |-> "working", killing |-> 0]
  BY <1>6
<1>8. menu # "codec"
  BY <1>1, <1>6 DEF FrameOK, Pausing
<1>9. /\ timer' \in -1 .. GameOverDelay
      /\ over' \in {"none", "rises", "shown", "asks", "leaves", "marked"}
      /\ over' # "none" => timer' = -1
  <2>1. over # "none" => timer = -1
    BY <1>1 DEF FrameOK, Pausing
  <2>2. over \in {"none", "rises", "shown", "asks", "leaves", "marked"}
    BY <1>1 DEF FrameOK
  <2> QED BY <1>2, <1>6, <2>1, <2>2
<1>10. pause' \subseteq {"stop", "pause", "menu", "err"}
  BY <1>1, <1>3, Errors DEF FrameOK
<1>11. FrameOK'
  BY <1>1, <1>3, <1>5, <1>6, <1>7, <1>8, <1>9, <1>10
     DEF FrameOK, Turns, Pausing, Dying, Loading
<1> QED BY <1>5, <1>11, PartsNext

LEMMA StartKillingInv ==
  ASSUME IInv, StartKilling
  PROVE  IInv'
<1>1. StreamOK(g) /\ FrameOK
  BY Parts
<1>2. /\ gamed.status = "working" /\ gamed.killing = 0 /\ timer = 0 /\ g.load # "none"
      /\ "pause" \notin pause /\ pause' = pause \ {"err"} /\ g' = GM_StreamPlayStop(g)
      /\ turn = "gamed" /\ turn' = "stream" /\ gamed' = [gamed EXCEPT !.killing = 3]
      /\ UNCHANGED <<timer, complete, over, menu>>
  BY DEF StartKilling, Gamed, Turn
<1>3. StreamOK(g') /\ g'.load = g.load /\ g'.sound = g.sound
  BY <1>1, <1>2, PlayStopOK
<1>4. /\ gamed'.status = "working" /\ gamed'.killing = 3
      /\ gamed' \in [status : {"wait_load", "working"}, killing : 0..3]
  BY <1>1, <1>2 DEF FrameOK
<1>5. stage' \in {"none", "marked"} /\ cancel' \in {"none", "marked"}
  BY DEF StartKilling, DestroyActors
<1>6. over = "none"
  BY <1>1, <1>2 DEF FrameOK, Pausing
<1>7. FrameOK'
  BY <1>1, <1>2, <1>3, <1>4, <1>5, <1>6 DEF FrameOK, Turns, Pausing, Dying, Loading
<1> QED BY <1>3, <1>7, PartsNext

LEMMA KillingInv ==
  ASSUME IInv, Killing
  PROVE  IInv'
<1>1. StreamOK(g) /\ FrameOK
  BY Parts
<1>2. /\ gamed.killing > 0 /\ pause' = pause \ {"err"} /\ g' = g
      /\ turn = "gamed" /\ turn' = "stream"
      /\ gamed' = gamed \/ (gamed.killing > 1 /\ gamed' = [gamed EXCEPT !.killing = @ - 1])
      /\ UNCHANGED <<timer, complete, over, menu, cancel, stage>>
  BY DEF Killing, Gamed, Turn
<1>3. gamed \in [status : {"wait_load", "working"}, killing : 0..3] /\ gamed.status = "working"
  BY <1>1, <1>2 DEF FrameOK, Dying
<1>4. /\ gamed'.status = "working" /\ gamed'.killing > 0
      /\ gamed' \in [status : {"wait_load", "working"}, killing : 0..3]
  BY <1>2, <1>3
<1>5. over = "none" /\ (cancel # "none" => "stop" \in pause) /\ (stage # "none" => pause # {})
      /\ "err" \notin pause
  BY <1>1, <1>2 DEF FrameOK, Dying, Pausing
<1>6. pause' = pause
  BY <1>2, <1>5
<1>7. FrameOK'
  BY <1>1, <1>2, <1>4, <1>5, <1>6 DEF FrameOK, Turns, Pausing, Dying, Loading
<1> QED BY <1>1, <1>2, <1>7, PartsNext

LEMMA ResetStageInv ==
  ASSUME IInv, ResetStage
  PROVE  IInv'
<1>1. StreamOK(g) /\ FrameOK
  BY Parts
<1>2. /\ gamed.killing = 1 /\ GM_StreamStatus(g) = -1 /\ pause \cap {"stop", "menu"} = {}
      /\ pause' = pause \ {"err"} /\ turn = "gamed" /\ turn' = "stream"
      /\ gamed' = [status |-> "wait_load", killing |-> 0] /\ timer' = 0
      /\ g' = [g EXCEPT !.vox = FALSE, !.over = FALSE, !.cutscene = FALSE, !.dead = FALSE]
      /\ complete' \in {0, complete} /\ UNCHANGED <<menu, over, cancel, stage>>
  BY DEF ResetStage, Turn
<1>3. g \in Flow /\ g.state \in 0 .. 3
  BY <1>1, StreamType DEF StreamOK
<1>4. g.state = 0
  BY <1>2, <1>3 DEF GM_StreamStatus
<1>5. g' \in Flow
  <2>1. [g EXCEPT !.vox = FALSE, !.over = FALSE, !.cutscene = FALSE, !.dead = FALSE] \in Flow
    BY <1>3, Constants, FlowReset
  <2> QED BY <1>2, <2>1
<1>6. /\ g'.state = g.state /\ g'.act = g.act /\ g'.stop = g.stop /\ g'.sound = g.sound
      /\ g'.load = g.load /\ Ring(g') = Ring(g) /\ Ahead(g') = Ahead(g) /\ Owed(g') = Owed(g)
  <2>1. g' = [g EXCEPT !.vox = FALSE, !.over = FALSE, !.cutscene = FALSE, !.dead = FALSE]
    BY <1>2
  <2> QED BY <1>3, <2>1, SMT DEF Flow, Ring, Ahead, Owed
<1>7. StreamOK(g')
  BY <1>1, <1>5, <1>6, Whole
<1>8. /\ g.load # "none" /\ over = "none" /\ pause = {}
      /\ stage = "none" /\ cancel = "none" /\ menu # "codec"
  <2>1. /\ g.load # "none" /\ timer = 0 /\ pause \cap {"pause", "err"} = {}
        /\ cancel # "none" /\ "stop" \notin pause => gamed.killing = 3
        /\ stage # "none" /\ pause = {} => gamed.killing = 3
    BY <1>1, <1>2 DEF FrameOK, Dying
  <2>2. pause = {}
    BY <1>1, <1>2, <2>1 DEF FrameOK
  <2>3. over = "none" /\ menu # "codec"
    BY <1>1, <2>1, <2>2 DEF FrameOK, Pausing
  <2> QED BY <1>2, <2>1, <2>2, <2>3
<1>9. /\ gamed'.status = "wait_load" /\ gamed'.killing = 0
      /\ gamed' \in [status : {"wait_load", "working"}, killing : 0..3]
  BY <1>2
<1>10. timer' \in -1 .. GameOverDelay /\ complete' \in -1 .. 1
  BY <1>1, <1>2, StageAssumption DEF FrameOK
<1>11. pause' = {}
  BY <1>2, <1>8
<1>12. FrameOK'
  BY <1>1, <1>2, <1>4, <1>6, <1>8, <1>9, <1>10, <1>11
     DEF FrameOK, Turns, Pausing, Dying, Loading
<1> QED BY <1>7, <1>12, PartsNext

LEMMA GamedActInv ==
  ASSUME IInv, GamedAct
  PROVE  IInv'
  BY ExecScenarioInv, WorkingInv, GameOverTimeInv, StartKillingInv, KillingInv, ResetStageInv
     DEF GamedAct

LEMMA StreamInv ==
  ASSUME IInv, Stream
  PROVE  IInv'
<1>1. StreamOK(g) /\ FrameOK
  BY Parts
<1>2. /\ turn = "stream" /\ turn' = "prev" /\ g' \in DemoAct(SubtitleAct(StreamAct(g)))
      /\ UNCHANGED <<gamed, timer, complete, pause, menu, over, cancel, stage>>
  BY DEF Stream, Turn
<1>3. g.sound # "asked"
  BY <1>1, <1>2 DEF FrameOK, Turns
<1> DEFINE a == StreamAct(g)
           b == SubtitleAct(a)
<1>4. StreamOK(a) /\ (g.load # "none" => a.load = g.load)
  BY <1>1, <1>3, StreamActOK
<1>5. CASE g.state = 0
  <2>1. g.act = "none" /\ g.subtitle = "none" /\ g.demo = "none"
    BY <1>1, <1>5 DEF StreamOK, Streaming, Silent
  <2>2. a = g
    BY <2>1 DEF StreamAct
  <2>3. b = a
    BY <2>1, <2>2 DEF SubtitleAct
  <2>4. DemoAct(b) = {b}
    BY <2>1, <2>2, <2>3 DEF DemoAct
  <2>5. g' = g
    BY <1>2, <2>2, <2>3, <2>4
  <2>6. FrameOK'
    BY <1>1, <1>2, <2>5 DEF FrameOK, Turns, Pausing, Dying, Loading
  <2> QED BY <1>1, <2>5, <2>6, PartsNext
<1>6. CASE g.state # 0
  <2> HIDE DEF a
  <2>1. StreamOK(b) /\ b.load = a.load
    BY <1>4, SubtitleActOK
  <2>2. g' \in DemoAct(b)
    BY <1>2 DEF a
  <2> HIDE DEF b
  <2>3. StreamOK(g') /\ g'.load = b.load
    BY <2>1, <2>2, DemoActOK
  <2>4. g.load # "none" => g'.load = g.load
    BY <1>4, <2>1, <2>3
  <2>5. FrameOK'
    BY <1>1, <1>2, <1>6, <2>4 DEF FrameOK, Turns, Pausing, Dying, Loading
  <2> QED BY <2>3, <2>5, PartsNext
<1> QED BY <1>5, <1>6

\* The load that a procedure asks for.
LEMMA LoadOK ==
  ASSUME NEW c, StreamOK(c), NEW d, d = [c EXCEPT !.load = "stage"]
  PROVE  StreamOK(d)
<1>1. c \in Flow /\ "stage" \in LoadState
  BY DEF StreamOK, LoadState
<1>2. d \in Flow
  <2>1. [c EXCEPT !.load = "stage"] \in Flow
    BY <1>1, FlowLoad
  <2> QED BY <2>1
<1>3. /\ d.state = c.state /\ d.act = c.act /\ d.stop = c.stop
      /\ Ring(d) = Ring(c) /\ Ahead(d) = Ahead(c) /\ Owed(d) = Owed(c)
  BY <1>1, SMT DEF Flow, Ring, Ahead, Owed
<1> QED BY <1>2, <1>3, Whole

LEMMA PrevInv ==
  ASSUME IInv, Prev
  PROVE  IInv'
<1>1. StreamOK(g) /\ FrameOK
  BY Parts
<1>2. /\ turn = "prev" /\ turn' = "actors"
      /\ UNCHANGED <<gamed, timer, menu, over, stage>>
  BY DEF Prev, Turn
<1>3. CASE PausesSome
  <2>1. UNCHANGED <<g, complete, pause, cancel>> /\ pause \cap {"stop", "err"} # {}
    BY <1>3 DEF Prev, PausesSome
  <2>2. FrameOK'
    BY <1>1, <1>2, <2>1 DEF FrameOK, Turns, Pausing, Dying, Loading
  <2> QED BY <1>1, <2>1, <2>2, PartsNext
<1>4. CASE ~PausesSome
  <2>1. LoaderAct /\ CancelAct /\ "stop" \notin pause
    BY <1>4 DEF Prev, PausesSome
  <2>2. complete' \in {complete, -1}
    BY <2>1 DEF LoaderAct
  <2>3. complete' \in -1 .. 1 /\ (complete <= 0 => complete' <= 0)
    BY <1>1, <2>2 DEF FrameOK
  <2>4. CASE cancel \in {"none", "watch", "fades"} /\ UNCHANGED <<g, pause>>
             /\ cancel' \in {cancel, "marked"} /\ (cancel = "none" => cancel' = "none")
    <3>1. FrameOK'
      BY <1>1, <1>2, <2>1, <2>3, <2>4 DEF FrameOK, Turns, Pausing, Dying, Loading
    <3> QED BY <1>1, <2>4, <3>1, PartsNext
  <2>5. CASE /\ cancel = "watch" /\ g' = GM_StreamPlayStop(GM_StreamCancelCallback(g))
             /\ pause' = pause \cup {"menu"} /\ cancel' = "fades"
    <3> DEFINE a == GM_StreamCancelCallback(g)
    <3>1. StreamOK(a) /\ a.load = g.load
      BY <1>1, CancelOK
    <3>2. g' = GM_StreamPlayStop(a)
      BY <2>5
    <3> HIDE DEF a
    <3>3. StreamOK(g') /\ g'.load = g.load
      BY <3>1, <3>2, PlayStopOK
    <3>4. gamed.killing = 0 /\ gamed.status # "wait_load"
      BY <1>1, <2>5 DEF FrameOK, Dying, Loading
    <3>5. FrameOK'
      BY <1>1, <1>2, <2>3, <2>5, <3>4 DEF FrameOK, Turns, Pausing, Dying, Loading
    <3> QED BY <3>3, <3>5, PartsNext
  <2>6. CASE /\ cancel = "marked" /\ cancel' = "none" /\ pause' = pause \ {"menu"}
             /\ g' = g \/ (g.load = "none" /\ g' = [g EXCEPT !.load = "stage"])
    <3>1. StreamOK(g')
      BY <1>1, <2>6, LoadOK
    <3>2. gamed.killing > 0 => g' = g /\ gamed.killing = 3
      BY <1>1, <2>1, <2>6 DEF FrameOK, Dying
    <3>3. gamed.status # "wait_load"
      BY <1>1, <2>6 DEF FrameOK, Loading
    <3>4. FrameOK'
      BY <1>1, <1>2, <2>3, <2>6, <3>2, <3>3 DEF FrameOK, Turns, Pausing, Dying, Loading
    <3> QED BY <3>1, <3>4, PartsNext
  <2> QED BY <2>1, <2>4, <2>5, <2>6 DEF CancelAct
<1> QED BY <1>3, <1>4

LEMMA LoaderReadsInv ==
  ASSUME IInv, LoaderReads
  PROVE  IInv'
<1>1. StreamOK(g) /\ FrameOK
  BY Parts
<1>2. UNCHANGED <<g, turn, gamed, timer, complete, pause, menu, over, cancel, stage>>
  BY DEF LoaderReads
<1>3. FrameOK'
  BY <1>1, <1>2 DEF FrameOK, Turns, Pausing, Dying, Loading
<1> QED BY <1>1, <1>2, <1>3, PartsNext

\* What an actor of the stage does, to the stream and to the rest.
LEMMA StageActOK ==
  ASSUME StreamOK(g), StageAct
  PROVE  /\ StreamOK(g')
         /\ cancel' \in {cancel, "watch"}
         /\ \/ timer' = timer
            \/ timer = 2 /\ timer' = -1
            \/ timer = -1 /\ over = "none" /\ timer' = 1
            \/ timer = 0 /\ timer' = GameOverDelay
<1>1. CASE PlayerDies
  <2>1. g' = [g EXCEPT !.dead = TRUE] /\ timer = 2 /\ timer' = -1 /\ cancel' = cancel
    BY <1>1 DEF PlayerDies
  <2>2. StreamOK(g')
    BY <2>1, Constants, FlagOK
  <2> QED BY <2>1, <2>2
<1>2. CASE AskVoice
  <2>1. PICK s \in Voices : CanAsk(s) /\ g' = GM_VoxStream(g, s) /\ UNCHANGED <<cancel, timer>>
    BY <1>2 DEF AskVoice
  <2>2. s \notin g.asked
    BY <2>1 DEF CanAsk
  <2>3. May(g, s)
    BY <2>2, MayAsk
  <2>4. StreamOK(g')
    BY <2>1, <2>3, VoxOK
  <2> QED BY <2>1, <2>4
<1>3. CASE AskDemo
  <2>1. PICK s \in Demos : CanAsk(s) /\ g' = GM_DemoStream(g, s)
    BY <1>3 DEF AskDemo
  <2>2. s \notin g.asked
    BY <2>1 DEF CanAsk
  <2>3. May(g, s)
    BY <2>2, MayAsk
  <2>4. StreamOK(g')
    BY <2>1, <2>3, DemoStreamOK
  <2> QED BY <1>3, <2>4 DEF AskDemo
<1>4. CASE AskLoad
  <2>1. g' = [g EXCEPT !.load = "stage"] /\ UNCHANGED <<cancel, timer>>
    BY <1>4 DEF AskLoad
  <2>2. StreamOK(g')
    BY <2>1, LoadOK
  <2> QED BY <2>1, <2>2
<1>5. CASE PlayWaiting
  <2>1. g' = GM_StreamPlayStart(g) /\ UNCHANGED <<cancel, timer>>
    BY <1>5 DEF PlayWaiting
  <2>2. StreamOK(g')
    BY <2>1, PlayStartOK
  <2> QED BY <2>1, <2>2
<1>6. CASE StopStream
  <2>1. g' = GM_StreamPlayStop(g) /\ UNCHANGED <<cancel, timer>>
    BY <1>6 DEF StopStream
  <2>2. StreamOK(g')
    BY <2>1, PlayStopOK
  <2> QED BY <2>1, <2>2
<1>7. CASE AskGameOver
  BY <1>7 DEF AskGameOver
<1>8. CASE PlayerIsDead
  <2>1. /\ g' = GM_StreamPlayStop(g) /\ timer = -1 /\ over = "none" /\ timer' = 1
        /\ cancel' = cancel
    BY <1>8 DEF PlayerIsDead
  <2>2. StreamOK(g')
    BY <2>1, PlayStopOK
  <2> QED BY <2>1, <2>2
<1>9. CASE UNCHANGED <<g, cancel, timer>>
  BY <1>9
<1> QED BY <1>1, <1>2, <1>3, <1>4, <1>5, <1>6, <1>7, <1>8, <1>9 DEF StageAct

LEMMA ActorsInv ==
  ASSUME IInv, Actors
  PROVE  IInv'
<1>1. StreamOK(g) /\ FrameOK
  BY Parts
<1>2. /\ turn = "actors" /\ turn' \in {"menus", "over"}
      /\ UNCHANGED <<gamed, complete, pause, menu, over>>
  BY DEF Actors, Turn
<1>3. CASE stage = "live" /\ ~PausesAll /\ StageAct /\ UNCHANGED stage
  <2>1. /\ StreamOK(g') /\ cancel' \in {cancel, "watch"}
        /\ \/ timer' = timer
           \/ timer = 2 /\ timer' = -1
           \/ timer = -1 /\ over = "none" /\ timer' = 1
           \/ timer = 0 /\ timer' = GameOverDelay
    BY <1>1, <1>3, StageActOK
  <2>2. /\ gamed \in [status : {"wait_load", "working"}, killing : 0..3]
        /\ gamed.status # "wait_load" /\ ~(gamed.killing > 0)
    BY <1>1, <1>3 DEF FrameOK, Dying, Loading
  <2>3. menu # "codec"
    BY <1>1, <1>3 DEF FrameOK, Pausing, PausesAll
  <2>4. timer' \in -1 .. GameOverDelay
    BY <1>1, <2>1, StageAssumption DEF FrameOK
  <2>5. over # "none" => timer' = -1
    BY <1>1, <2>1 DEF FrameOK, Pausing
  <2>6. FrameOK'
    BY <1>1, <1>2, <1>3, <2>1, <2>2, <2>3, <2>4, <2>5
       DEF FrameOK, Turns, Pausing, Dying, Loading
  <2> QED BY <2>1, <2>6, PartsNext
<1>4. CASE stage = "live" /\ BehindMenus /\ UNCHANGED stage
  <2>1. g' = g \/ g' = GM_StreamPlayStart(g) \/ g' = GM_StreamPlayStop(g)
    BY <1>4 DEF BehindMenus, PlayWaiting, StopStream
  <2>2. UNCHANGED <<cancel, timer>>
    BY <1>4 DEF BehindMenus, PlayWaiting, StopStream
  <2>3. StreamOK(g') /\ g'.load = g.load
    BY <1>1, <2>1, PlayStartOK, PlayStopOK
  <2>4. gamed.status # "wait_load" /\ ~(gamed.killing > 0)
    BY <1>1, <1>4 DEF FrameOK, Dying, Loading
  <2>5. FrameOK'
    BY <1>1, <1>2, <1>4, <2>2, <2>4 DEF FrameOK, Turns, Pausing, Dying, Loading
  <2> QED BY <2>3, <2>5, PartsNext
<1>5. CASE UNCHANGED <<g, cancel, timer>>
           /\ \/ stage' = "none"
              \/ stage' = stage /\ (stage = "none" \/ pause # {})
  <2>1. FrameOK'
    BY <1>1, <1>2, <1>5 DEF FrameOK, Turns, Pausing, Dying, Loading
  <2> QED BY <1>1, <1>5, <2>1, PartsNext
<1>6. PausesSome => PausesAll
  BY DEF PausesSome, PausesAll
<1> QED BY <1>3, <1>4, <1>5, <1>6 DEF Actors, PausesAll

(*------------------- the disk and the sound task, at any time ------------*)

LEMMA DiskInv ==
  ASSUME IInv, Disk \/ ReadAhead
  PROVE  IInv'
<1>1. StreamOK(g) /\ FrameOK
  BY Parts
<1>2. /\ Filled \/ ReadEnd \/ Due \/ DemoBlock
      /\ UNCHANGED <<turn, gamed, timer, complete, pause, menu, over, cancel, stage>>
  BY DEF Disk, ReadAhead
<1>3. StreamOK(g') /\ g'.load = g.load /\ g'.state = g.state /\ g'.sound = g.sound
  BY <1>1, <1>2, DiskOK
<1>4. FrameOK'
  BY <1>1, <1>2, <1>3 DEF FrameOK, Turns, Pausing, Dying, Loading
<1> QED BY <1>3, <1>4, PartsNext

LEMMA SoundInv ==
  ASSUME IInv, Sound
  PROVE  IInv'
<1>1. StreamOK(g) /\ FrameOK
  BY Parts
<1>2. /\ SoundTask
      /\ UNCHANGED <<turn, gamed, timer, complete, pause, menu, over, cancel, stage>>
  BY DEF Sound
<1>3. StreamOK(g') /\ g'.load = g.load /\ g'.state = g.state /\ g'.sound # "asked"
  BY <1>1, <1>2, SoundOK
<1>4. FrameOK'
  BY <1>1, <1>2, <1>3 DEF FrameOK, Turns, Pausing, Dying, Loading
<1> QED BY <1>3, <1>4, PartsNext

LEMMA InitInv == Init => IInv
<1> SUFFICES ASSUME Init PROVE IInv
  OBVIOUS
<1>1. \E r \in Runs : g.runs = r /\ (\A s \in Streams : r[s] = "no")
  <2> DEFINE r == [s \in Streams |-> "no"]
  <2>1. r \in Runs
    BY DEF Runs
  <2>2. g.runs = r
    BY DEF Init
  <2> QED BY <2>1, <2>2
<1>2. /\ g.state = 0 /\ g.sub = 0 /\ g.act = "none" /\ g.proc = None /\ g.left = <<>> /\ g.due = 0
      /\ g.slot = None /\ g.task = 0 /\ ~g.read /\ ~g.stop /\ g.count = 0
      /\ g.load = "none" /\ g.sound = "off" /\ g.subtitle = "none" /\ g.demo = "none"
      /\ g.asked = {}
  BY DEF Init
<1>3. g \in Flow
  <2>1. [s \in Streams |-> "no"] \in Runs
    BY DEF Runs
  <2>2. <<>> \in Seq(Kind) /\ {} \in SUBSET Streams
    OBVIOUS
  <2> DEFINE r == [s \in Streams |-> "no"]
  <2> HIDE DEF r
  <2>3. g = [state |-> 0, sub |-> 0, act |-> "none", proc |-> None, left |-> <<>>, due |-> 0,
          slot |-> None, task |-> 0, read |-> FALSE, stop |-> FALSE, end |-> TRUE,
          count |-> 0, vox |-> FALSE, over |-> FALSE, cutscene |-> FALSE, dead |-> FALSE,
          load |-> "none", sound |-> "off", subtitle |-> "none", demo |-> "none",
          asked |-> {}, runs |-> r]
    BY DEF Init, r
  <2>4. r \in Runs
    BY <2>1 DEF r
  <2>5. /\ "none" \in ActState /\ "none" \in LoadState /\ "off" \in SoundState
        /\ "none" \in SubtitleState /\ "none" \in DemoState
    BY DEF ActState, LoadState, SoundState, SubtitleState, DemoState
  <2> QED BY <2>2, <2>3, <2>4, <2>5, Constants, Zenon DEF Flow
<1>4. Streaming(g)
  BY <1>2 DEF Streaming, Users, Opened, Silent
<1>5. Coming(g)
  BY <1>2 DEF Coming
<1>6. Owing(g)
  <2>1. \A s \in WithProc : s # None /\ s \in Streams
    BY StreamsAssumption
  <2>2. \A s \in WithProc : g.runs[s] = "no"
    BY <1>1, <2>1
  <2> QED BY <1>2, <2>1, <2>2 DEF Owing, Owes
<1>7. FrameOK
  <2>1. 0 \in -1 .. GameOverDelay
    BY StageAssumption
  <2> QED BY <1>2, <2>1 DEF Init, FrameOK, Turns, Pausing, Dying, Loading
<1> QED BY <1>3, <1>4, <1>5, <1>6, <1>7, Parts DEF StreamOK

LEMMA NextInv == IInv /\ [Next]_vars => IInv'
<1> SUFFICES ASSUME IInv, [Next]_vars PROVE IInv'
  OBVIOUS
<1>1. CASE Frame
  BY <1>1, OverActInv, OverDieInv, MenusInv, GamedActInv, StreamInv, PrevInv, ActorsInv DEF Frame
<1>2. CASE CodecCalls \/ LoaderReads \/ Disk \/ ReadAhead \/ Sound
  BY <1>2, CodecCallsInv, LoaderReadsInv, DiskInv, SoundInv
<1>3. CASE UNCHANGED vars
  <2>1. StreamOK(g) /\ FrameOK
    BY Parts
  <2>2. FrameOK'
    BY <1>3, <2>1 DEF vars, FrameOK, Turns, Pausing, Dying, Loading
  <2> QED BY <1>3, <2>1, <2>2, PartsNext DEF vars
<1> QED BY <1>1, <1>2, <1>3 DEF Next

(*------------------------------ the theorems -----------------------------*)

\* The inductive invariant, with the type of every variable: what holds of the record
\* of the stream between two calls, and of the frame at every turn.
THEOREM Invariant == Spec => []IInv
  BY InitInv, NextInv, PTL DEF Spec

\* The count that strctrl.c waits on is the number of those who hold the ring, whatever
\* the order of requests, stops and ends: it is not set to 0 while one of them holds it.
THEOREM RingFreeHolds == Spec => []RingFree
<1>1. IInv => RingFree
  <2> SUFFICES ASSUME IInv PROVE RingFree
    OBVIOUS
  <2>1. TypeOK /\ StreamOK(g)
    BY DEF IInv
  <2>2. OpenUsers = Users(g)
    BY <2>1, UsersCount DEF OpenUsers
  <2> QED BY <2>1, <2>2 DEF RingFree, StreamOK, Streaming
<1> QED BY <1>1, Invariant, PTL

\* The procedure that came with a request is run or cancelled once, and is owed only while
\* its stream plays or waits in the slot: StreamDie, a request that puts another out of the
\* slot and GM_StreamCancelCallback neither lose it nor run it again.
THEOREM CallbackOnceHolds == Spec => []CallbackOnce
<1>1. IInv => CallbackOnce
  BY DEF IInv, StreamOK, Owing, Owes, CallbackOnce
<1> QED BY <1>1, Invariant, PTL

\* When gamed resets the memory of a stage, nothing of the stage lives in it.
THEOREM ResetSafeHolds == Spec => []ResetSafe
<1>1. IInv => ResetSafe
  <2> SUFFICES ASSUME IInv, gamed.status = "wait_load"
               PROVE  /\ g.state = 0 /\ OpenUsers = 0 /\ g.sound = "off" /\ g.slot = None
                      /\ stage = "none" /\ cancel = "none" /\ over = "none"
                      /\ pause \subseteq {"err"}
    BY DEF ResetSafe
  <2>1. StreamOK(g) /\ g.state = 0 /\ stage = "none" /\ cancel = "none" /\ over = "none"
        /\ pause \subseteq {"err"}
    BY DEF IInv, Loading
  <2>2. Silent(g) /\ g.slot = None
    BY <2>1 DEF StreamOK, Streaming, Owing
  <2>3. OpenUsers = Users(g)
    BY <2>1, UsersCount DEF OpenUsers
  <2>4. Users(g) = 0
    BY <2>2 DEF Users, Opened, Silent
  <2> QED BY <2>1, <2>2, <2>3, <2>4 DEF Silent
<1> QED BY <1>1, Invariant, PTL
=============================================================================
