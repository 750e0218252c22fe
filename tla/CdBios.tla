------------------------------- MODULE CdBios -------------------------------
(***************************************************************************)
(* libfs/cdbios.c: three parties share the description of a disk read.     *)
(* The game (and the tasks that load files for it) writes a request, and   *)
(* may stop it; the disk task, which is less urgent, starts the read, and  *)
(* starts it again after an error; the interrupt of the drive takes the    *)
(* sectors.  A step is what no other party can divide: the whole interrupt,*)
(* one store of a request, and one access of the task to what it shares.   *)
(*                                                                         *)
(* There are three kinds of request: a file, whose length is known; a      *)
(* stage, whose length its first sector tells to the callback; a stream,   *)
(* which has no end but the one its callback finds.                        *)
(***************************************************************************)
EXTENDS Integers, FiniteSets

CONSTANTS
  Last,         \* bound: the last sector of the disk
  Length,       \* lengths of files and stages, in sectors
  RetryBack,    \* how many sectors before the failure each RetryCycle-th retry starts: 4
  RetryCycle,   \* 4
  MaxRequests,  \* bound: requests made
  MaxFaults     \* bound: sectors lost, errors, and commands the drive refuses

ASSUME DiskAssumption == /\ Last \in Nat \ {0}
                         /\ Length \subseteq 1 .. Last /\ Length # {}
                         /\ RetryBack \in Nat /\ RetryCycle \in Nat \ {0}
                         /\ MaxRequests \in Nat /\ MaxFaults \in Nat

VARIABLES
  state, sector, buffer, remaining, sectors_delivered, callback,  \* cdbios_task
  next_state,    \* cdbios_next_state
  start_flag,    \* cdbios_start_flag
  stop_flag,     \* cdbios_stop_flag
  pc,            \* where the disk task goes on
  last_sector, failed_reads, loc,   \* its variables
  ready,         \* whether CDBIOS_ReadyCallback is installed
  reading, pos,  \* the drive: whether it reads, and the sector it reads next
  seeking,       \* how many blanks it needs to get there: assumed, two at least
  call,          \* the store CDBIOS_ReadRequest makes next, or "none"
  req,           \* the latest request
  phase,         \* whether it is wanted, was ended by its callback, or stopped by the game
  ended,         \* history: a sector has come since it was stopped
  loose,         \* history: the read before may go on, its stop unseen, or it was torn
  torn,          \* history: the read before, or one given up, has spoilt the request
  faults

taskVars == <<state, sector, buffer, remaining, sectors_delivered, callback>>
flagVars == <<next_state, start_flag, stop_flag>>
mainVars == <<pc, last_sector, failed_reads, loc>>
diskVars == <<ready, reading, pos, seeking>>
gameVars == <<call, req, phase, ended, loose, torn>>
vars == <<taskVars, flagVars, mainVars, diskVars, gameVars, faults>>

Sector == 1 .. Last
Place  == 1 - RetryBack .. Last + 1
State  == {"idle", "start", "read", "error"}
Kind   == {"file", "stage", "stream"}
Endless == Last + 1   \* 0x7fff0000 bytes: more than any stream has

Request  == [id : 0 .. MaxRequests, kind : Kind, first : Sector, length : Length \cup {Endless}]
NoRequest == [id |-> 0, kind |-> "file", first |-> 1, length |-> CHOOSE n \in Length : TRUE]

\* The callback is told apart by the request it belongs to; a file has none.
CallbackOf(r) == IF r.kind = "file" THEN NoRequest ELSE r

Init == /\ state = "idle" /\ sector = 1 /\ remaining = 0 /\ sectors_delivered = 0
        /\ buffer = [id |-> 0, next |-> 0] /\ callback = NoRequest
        /\ next_state = "invalid" /\ start_flag = FALSE /\ stop_flag = FALSE
        /\ pc = "loop" /\ last_sector = 0 /\ failed_reads = 0 /\ loc = 0
        /\ ready = FALSE /\ reading = FALSE /\ pos = 1 /\ seeking = 0
        /\ call = "none" /\ req = NoRequest /\ phase = "over" /\ ended = FALSE
        /\ loose = FALSE /\ torn = FALSE
        /\ faults = 0

Fault == faults < MaxFaults /\ faults' = faults + 1

-----------------------------------------------------------------------------
(* The game *)

\* Files and stages are waited for with CDBIOS_ReadSync; a stream is over when its
\* callback has said so or the game has stopped it.
MayRequest == IF req.kind = "stream" THEN phase # "wanted" ELSE remaining = 0

\* The request a caller is about to make: nothing is stored yet.
Ask(k, first, n) ==
  /\ call = "none" /\ MayRequest /\ req.id < MaxRequests
  /\ k # "stream" => first + n - 1 <= Last
  /\ req' = [id |-> req.id + 1, kind |-> k, first |-> first,
             length |-> IF k = "stream" THEN Endless ELSE n]
  /\ phase' = "wanted" /\ ended' = FALSE
  /\ loose' = (torn \/ (phase = "stopped" /\ ~ended)) /\ torn' = FALSE
  /\ call' = "buffer"
  /\ UNCHANGED <<taskVars, flagVars, mainVars, ready, reading, pos, seeking, faults>>

\* CDBIOS_ReadRequest, store by store.
StoreBuffer ==
  /\ call = "buffer" /\ call' = "remaining"
  /\ buffer' = [id |-> req.id, next |-> 0]
  /\ UNCHANGED <<state, sector, remaining, sectors_delivered, callback, flagVars>>

StoreRemaining ==
  /\ call = "remaining" /\ call' = "sector"
  /\ remaining' = IF req.kind = "stage" THEN 1 ELSE req.length
  /\ UNCHANGED <<state, sector, buffer, sectors_delivered, callback, flagVars>>

StoreSector ==
  /\ call = "sector" /\ call' = "callback"
  /\ sector' = req.first
  /\ UNCHANGED <<state, buffer, remaining, sectors_delivered, callback, flagVars>>

\* faulty: the count of sectors goes on from the request before
StoreCallbackCounts ==
  /\ call = "callback" /\ call' = "flags"
  /\ callback' = CallbackOf(req)
  /\ UNCHANGED <<state, sector, buffer, remaining, sectors_delivered, flagVars>>

StoreCallback ==
  /\ call = "callback" /\ call' = "flags"
  /\ callback' = CallbackOf(req)
  /\ sectors_delivered' = 0
  /\ UNCHANGED <<state, sector, buffer, remaining, flagVars>>

StoreFlags ==
  /\ call = "flags" /\ call' = "none"
  /\ stop_flag' = FALSE /\ start_flag' = TRUE
  /\ UNCHANGED <<taskVars, next_state>>

ReadRequest == /\ StoreBuffer \/ StoreRemaining \/ StoreSector \/ StoreCallback \/ StoreFlags
               /\ UNCHANGED <<mainVars, diskVars, req, phase, ended, loose, torn, faults>>

\* CDBIOS_ForceStop, in FS_StreamStop.  The callback of a stream that was stopped
\* ends the read as well, at its next sector.
ForceStop ==
  /\ call = "none" /\ req.kind = "stream" /\ phase = "wanted"
  /\ phase' = "stopped"
  /\ stop_flag' = (stop_flag \/ state # "idle")
  /\ UNCHANGED <<taskVars, next_state, start_flag, mainVars, diskVars, call, req, ended,
                 loose, torn, faults>>

-----------------------------------------------------------------------------
(* The interrupt *)

CDBIOS_Stop  == ready' = FALSE /\ reading' = FALSE /\ next_state' = "idle"
CDBIOS_Error == ready' = FALSE /\ next_state' = "error"

OnTrack == reading /\ seeking = 0

Heard == OnTrack /\ ready

\* The drive comes to a sector when no callback is installed, or past the end.
Unheard ==
  /\ OnTrack /\ ~ready
  /\ IF pos > Last THEN reading' = FALSE /\ UNCHANGED pos
                   ELSE pos' = pos + 1 /\ UNCHANGED reading
  /\ UNCHANGED <<taskVars, flagVars, mainVars, ready, seeking, gameVars, faults>>

\* The game has stopped the read, whatever the drive reports.
Stopped ==
  /\ Heard /\ stop_flag
  /\ CDBIOS_Stop
  /\ UNCHANGED <<taskVars, start_flag, stop_flag, mainVars, pos, seeking, gameVars, faults>>

\* A sector before the one that is wanted.
Early ==
  /\ Heard /\ ~stop_flag /\ pos < sector /\ pos <= Last
  /\ pos' = pos + 1
  /\ UNCHANGED <<taskVars, flagVars, mainVars, ready, reading, seeking, gameVars, faults>>

\* A sector after it, or an error.
Skipped ==
  /\ Heard /\ ~stop_flag
  /\ \/ pos > sector /\ UNCHANGED faults
     \/ pos > Last /\ UNCHANGED faults
     \/ Fault
  /\ CDBIOS_Error
  /\ pos' = IF pos > Last THEN pos ELSE pos + 1
  /\ UNCHANGED <<taskVars, start_flag, stop_flag, mainVars, reading, seeking, gameVars>>

\* faulty: any sector from the wanted one on will do.
WantedOrLater == pos >= sector

Wanted == pos = sector

\* What the callback may answer: 0 ends the read, 2 says that it has placed the
\* buffer itself.  A stream ends when it is stopped, or full, or at its last sector; the
\* callback of a stream that was stopped answers for the stream asked for since, if one is.
Answers(left) ==
  CASE callback.kind = "stream" -> IF req.kind # "stream" \/ phase = "stopped" \/ pos = Last
                                   THEN {0} ELSE 0 .. 2
    [] callback.kind = "stage"  -> IF left = 0 THEN 0 .. 2 ELSE {1, 2}
    [] OTHER                    -> {1}

EndsRead(r, left) == r = 0 \/ left = 0

NextPlace(r) ==
  IF r = 2 THEN [id |-> IF callback.kind = "stream" THEN req.id ELSE callback.id,
                 next |-> sectors_delivered + 1]
  ELSE [buffer EXCEPT !.next = @ + 1]

\* What the callback of a stage finds: its length in the first sector, or anything
\* when that is another sector, or empty.
LengthsRead ==
  CASE callback.kind = "stage" /\ sectors_delivered = 0 ->
         {n - 1 : n \in IF pos = callback.first /\ remaining > 0 THEN {callback.length} ELSE Length}
    [] OTHER -> {IF remaining = 0 THEN 0 ELSE remaining - 1}

\* The latest request is not yet the one the drive reads: the task has not seen it, or
\* has not sent the drive to it.
Waits == start_flag \/ call # "none"
Starting == \/ pc \in {"started", "clear", "install", "read", "seek"}
            \/ pc = "switch" /\ state = "start"
Unread == Waits \/ Starting

\* The sector goes to the buffer, and the description on to the next one, whichever
\* request they are of.  The read stops when the callback says so or nothing remains.
\* What tears a request is named: a sector that comes between its stores, and an end that
\* comes before the drive is sent to it or while the task gives the read up.
Deliver ==
  /\ Heard /\ ~stop_flag /\ Wanted /\ pos <= Last
  /\ \E left \in LengthsRead : \E r \in Answers(left) :
       /\ buffer' = NextPlace(r)
       /\ remaining' = left
       /\ IF EndsRead(r, left) THEN CDBIOS_Stop ELSE UNCHANGED <<ready, reading, next_state>>
       /\ phase' = IF r = 0 /\ callback.kind = "stream" /\ req.kind = "stream" /\ phase = "wanted"
                   THEN "over" ELSE phase
       /\ torn' = (torn \/ call # "none" \/ ((Unread \/ pc = "error") /\ EndsRead(r, left)))
  /\ ended' = (phase = "stopped")
  /\ sector' = sector + 1
  /\ sectors_delivered' = sectors_delivered + 1
  /\ pos' = pos + 1
  /\ UNCHANGED <<state, callback, start_flag, stop_flag, mainVars, seeking, call, req, loose, faults>>

\* The drive misses a sector, or stops without a word.
Lose ==
  /\ OnTrack /\ Fault /\ pos <= Last
  /\ \/ pos' = pos + 1 /\ UNCHANGED reading
     \/ reading' = FALSE /\ UNCHANGED pos
  /\ UNCHANGED <<taskVars, flagVars, mainVars, ready, seeking, gameVars>>

Interrupt == Unheard \/ Stopped \/ Early \/ Skipped \/ Deliver

-----------------------------------------------------------------------------
(* The disk task, less urgent than every caller *)

At(label)   == call = "none" /\ pc = label
Goto(label) == pc' = label

unlessMain == <<last_sector, failed_reads, loc>>

\* CDBIOS_Main: the loop begins with the stop flag, and then CDBIOS_Stop.
SeeStop ==
  /\ At("loop")
  /\ \/ stop_flag /\ stop_flag' = FALSE /\ Goto("stop")
     \/ ~stop_flag /\ UNCHANGED stop_flag /\ Goto("take")
  /\ UNCHANGED <<taskVars, next_state, start_flag, unlessMain, diskVars, gameVars, faults>>

StopCallback ==
  /\ At("stop") /\ Goto("pause")
  /\ ready' = FALSE
  /\ UNCHANGED <<taskVars, flagVars, unlessMain, reading, pos, seeking, gameVars, faults>>

StopDrive ==
  /\ At("pause") /\ Goto("take")
  /\ reading' = FALSE /\ next_state' = "idle"
  /\ UNCHANGED <<taskVars, start_flag, stop_flag, unlessMain, ready, pos, seeking,
                 gameVars, faults>>

TakeNextState ==
  /\ At("take")
  /\ \/ next_state # "invalid" /\ state' = next_state /\ Goto("taken")
     \/ next_state = "invalid" /\ UNCHANGED state /\ Goto("test")
  /\ UNCHANGED <<sector, buffer, remaining, sectors_delivered, callback, flagVars,
                 unlessMain, diskVars, gameVars, faults>>

ClearNextState ==
  /\ At("taken") /\ Goto("test")
  /\ next_state' = "invalid"
  /\ UNCHANGED <<taskVars, start_flag, stop_flag, unlessMain, diskVars, gameVars, faults>>

SeeStart ==
  /\ At("test")
  /\ \/ start_flag /\ state' = "start" /\ Goto("started")
     \/ ~start_flag /\ UNCHANGED state /\ Goto("switch")
  /\ UNCHANGED <<sector, buffer, remaining, sectors_delivered, callback, flagVars,
                 unlessMain, diskVars, gameVars, faults>>

\* faulty: the request stays, and starts the read again in each turn
ClearFlagsStop ==
  /\ At("started") /\ Goto("clear")
  /\ stop_flag' = FALSE
  /\ UNCHANGED <<taskVars, next_state, start_flag, unlessMain, diskVars, gameVars, faults>>

ClearFlags ==
  /\ At("started") /\ Goto("clear")
  /\ start_flag' = FALSE /\ stop_flag' = FALSE
  /\ UNCHANGED <<taskVars, next_state, unlessMain, diskVars, gameVars, faults>>

\* faulty: what the read before has left is taken for the new one's
ClearNextState2Not ==
  /\ At("clear") /\ Goto("switch")
  /\ UNCHANGED <<taskVars, flagVars, unlessMain, diskVars, gameVars, faults>>

ClearNextState2 ==
  /\ At("clear") /\ Goto("switch")
  /\ next_state' = "invalid"
  /\ UNCHANGED <<taskVars, start_flag, stop_flag, unlessMain, diskVars, gameVars, faults>>

CaseIdle ==
  /\ At("switch") /\ state = "idle" /\ Goto("wait")
  /\ UNCHANGED <<taskVars, flagVars, unlessMain, diskVars, gameVars, faults>>

CaseStart ==
  /\ At("switch") /\ state = "start" /\ Goto("install")
  /\ last_sector' = sector /\ loc' = sector /\ failed_reads' = 0
  /\ UNCHANGED <<taskVars, flagVars, diskVars, gameVars, faults>>

InstallCallback ==
  /\ pc \in {"install", "reinstall"} /\ call = "none"
  /\ Goto(IF pc = "install" THEN "read" ELSE "reread")
  /\ ready' = TRUE
  /\ UNCHANGED <<taskVars, flagVars, unlessMain, reading, pos, seeking, gameVars, faults>>

SetRead ==
  /\ At("read") /\ Goto("seek")
  /\ state' = "read"
  /\ UNCHANGED <<sector, buffer, remaining, sectors_delivered, callback, flagVars,
                 unlessMain, diskVars, gameVars, faults>>

\* The command CdlReadN, when the drive accepts it.
ReadN == reading' = TRUE /\ pos' = loc /\ seeking' = 2

\* Assumed: a drive that refuses it does not go on with the read before.
Refuse == Fault /\ reading' = FALSE /\ UNCHANGED <<pos, seeking>>

\* CdControl(CdlReadN) from START: refused, it is an error.
Seek ==
  /\ At("seek")
  /\ \/ ReadN /\ UNCHANGED faults /\ Goto("wait")
     \/ Refuse /\ Goto("error")
  /\ UNCHANGED <<taskVars, flagVars, unlessMain, ready, gameVars>>

CaseReadGoesOn ==
  /\ At("switch") /\ state = "read" /\ Goto("wait")
  /\ last_sector' = sector
  /\ UNCHANGED <<taskVars, flagVars, failed_reads, loc, diskVars, gameVars, faults>>

\* No sector for 500 blanks, of a drive that no one hears or that is at fault: the next
\* one may come just now.
CaseReadTimeout ==
  /\ At("switch") /\ state = "read" /\ Goto("error")
  /\ last_sector = sector
  /\ IF reading /\ ready THEN Fault ELSE UNCHANGED faults
  /\ UNCHANGED <<taskVars, flagVars, unlessMain, diskVars, gameVars>>

\* CDBIOS_Error, called by the task.
SetError ==
  /\ At("error") /\ Goto("silence")
  /\ next_state' = "error"
  /\ UNCHANGED <<taskVars, start_flag, stop_flag, unlessMain, diskVars, gameVars, faults>>

Silence ==
  /\ At("silence") /\ Goto("wait")
  /\ ready' = FALSE
  /\ UNCHANGED <<taskVars, flagVars, unlessMain, reading, pos, seeking, gameVars, faults>>

CaseError ==
  /\ At("switch") /\ state = "error" /\ Goto("reset")
  /\ ready' = FALSE
  /\ UNCHANGED <<taskVars, flagVars, unlessMain, reading, pos, seeking, gameVars, faults>>

\* After 800 blanks of errors the drive is reset first, which may fail as well.
Reset ==
  /\ At("reset")
  /\ \/ Goto("retry") /\ UNCHANGED <<reading, faults>>
     \/ Goto("retry") /\ reading' = FALSE /\ UNCHANGED faults
     \/ Goto("wait") /\ Fault /\ UNCHANGED reading
  /\ UNCHANGED <<taskVars, flagVars, unlessMain, ready, pos, seeking, gameVars>>

\* faulty: it starts again behind the sector that failed
RetryBehind ==
  /\ At("retry") /\ Goto("reinstall")
  /\ loc' = sector + 1
  /\ UNCHANGED <<taskVars, flagVars, last_sector, failed_reads, diskVars, gameVars, faults>>

Retry ==
  /\ At("retry") /\ Goto("reinstall")
  /\ loc' = IF failed_reads % RetryCycle < RetryCycle - 1 THEN sector ELSE sector - RetryBack
  /\ UNCHANGED <<taskVars, flagVars, last_sector, failed_reads, diskVars, gameVars, faults>>

\* Unless the game has stopped the read by now.
SetReread ==
  /\ At("reread")
  /\ \/ ~stop_flag /\ state' = "read" /\ Goto("reseek")
     \/ stop_flag /\ UNCHANGED state /\ Goto("wait")
  /\ UNCHANGED <<sector, buffer, remaining, sectors_delivered, callback, flagVars,
                 unlessMain, diskVars, gameVars, faults>>

Reseek ==
  /\ At("reseek") /\ Goto("wait")
  /\ \/ /\ ReadN
        /\ last_sector' = sector
        /\ UNCHANGED <<state, failed_reads, faults>>
     \/ /\ Refuse
        /\ failed_reads' = failed_reads + 1 /\ state' = "error"
        /\ UNCHANGED last_sector
  /\ UNCHANGED <<sector, buffer, remaining, sectors_delivered, callback, flagVars,
                 loc, ready, gameVars>>

WaitVbl ==
  /\ At("wait") /\ Goto("loop")
  /\ seeking' = IF seeking = 0 THEN 0 ELSE seeking - 1
  /\ UNCHANGED <<taskVars, flagVars, unlessMain, ready, reading, pos, gameVars, faults>>

CDBIOS_Main == \/ SeeStop \/ StopCallback \/ StopDrive \/ TakeNextState \/ ClearNextState
               \/ SeeStart \/ ClearFlags \/ ClearNextState2
               \/ CaseIdle \/ CaseStart \/ InstallCallback \/ SetRead \/ Seek
               \/ CaseReadGoesOn \/ CaseReadTimeout \/ SetError \/ Silence
               \/ CaseError \/ Reset \/ Retry \/ SetReread \/ Reseek \/ WaitVbl

Next == \/ \E k \in Kind, first \in Sector, n \in Length : Ask(k, first, n)
        \/ ReadRequest \/ ForceStop
        \/ Interrupt \/ Lose
        \/ CDBIOS_Main

Spec == Init /\ [][Next]_vars

\* A call and the task go on; a drive that reads comes to its next sector, and one that
\* does not, or is not heard, lets the time of 500 blanks pass.
FairSpec == Spec /\ WF_vars(ReadRequest) /\ WF_vars(CDBIOS_Main) /\ WF_vars(Interrupt)
                 /\ SF_vars(CaseReadTimeout /\ ~(reading /\ ready))

-----------------------------------------------------------------------------
(* Properties *)

\* Every variable has its type; the unsigned count of what remains never passes below zero.
TypeOK == /\ state \in State
          /\ sector \in 1 .. Last + 1 /\ remaining \in 0 .. Endless
          /\ sectors_delivered \in Nat
          /\ buffer \in [id : 0 .. MaxRequests, next : Nat]
          /\ callback \in Request
          /\ next_state \in State \cup {"invalid"}
          /\ start_flag \in BOOLEAN /\ stop_flag \in BOOLEAN
          /\ last_sector \in 0 .. Last + 1 /\ failed_reads \in 0 .. MaxFaults
          /\ loc \in Place \cup {0} /\ pos \in Place
          /\ ready \in BOOLEAN /\ reading \in BOOLEAN /\ seeking \in 0 .. 2
          /\ call \in {"none", "buffer", "remaining", "sector", "callback", "flags"}
          /\ req \in Request
          /\ phase \in {"wanted", "over", "stopped"} /\ ended \in BOOLEAN
          /\ loose \in BOOLEAN /\ torn \in BOOLEAN
          /\ faults \in 0 .. MaxFaults

\* Whenever the interrupt is going to hand out a sector, the description it finds is
\* that of the latest request, complete, and the sector is the next one of that request
\* and goes to the place for it: whatever was stopped, refused, lost or late before.
DeliversRight ==
  /\ TypeOK
  /\ Heard /\ ~stop_flag /\ Wanted /\ pos <= Last =>
     \/ torn \/ (loose /\ call # "none")
     \/ /\ buffer = [id |-> req.id, next |-> pos - req.first]
        /\ callback = CallbackOf(req)
        /\ sectors_delivered = pos - req.first
        /\ remaining = IF req.kind = "stage" /\ sectors_delivered = 0 THEN 1
                       ELSE req.length - sectors_delivered
        /\ remaining > 0

\* The read as its caller sees it: a request is taken over by the first of its stores,
\* and the counts that the stores have yet to set are those of the request before.
Stored == call \in {"none", "flags"}
Given == IF Stored /\ ~torn THEN sectors_delivered ELSE 0
Course == CASE torn -> "torn"
            [] ~torn /\ req.kind = "stream" -> IF ended THEN "over" ELSE phase
            [] ~torn /\ req.kind # "stream" -> IF call \notin {"buffer", "remaining"} /\ remaining = 0
                                      THEN "over" ELSE "wanted"
Astray == pc = "error" \/ (Unread /\ pos = req.first + Given)

Reader == INSTANCE DiskReader WITH request <- req, given <- Given, course <- Course, astray <- Astray

\* The three parties implement a reader that hands out the sectors of one request after
\* the other, each once and in order, to the end a file or a stage has, and of a stream
\* at most one after it was stopped: nothing of a request comes after the next was made.
IsReader == Reader!Spec

\* CDBIOS_ForceStop does nothing in the state IDLE: when the task waits in it, without
\* a state that the interrupt has left, no sector can be handed out any more, unless the
\* read was torn, and until the request after it is seen.
IdleIsQuiet ==
  pc = "wait" /\ state = "idle" /\ next_state = "invalid" =>
    ~ready \/ torn \/ (loose /\ Waits)

\* A file or a stage is read to its end, whatever goes wrong meanwhile, unless it is torn.
\* Its caller asks for nothing else before.
Completes == req.kind # "stream" ~> (remaining = 0 /\ call = "none") \/ torn

\* A stream that is stopped, or over, leaves the drive in peace, or another request
\* takes it: also when the stop comes too early or too late for the flag to be seen.
StreamEnds ==
  req.kind = "stream" /\ phase # "wanted" ~>
    (state = "idle" /\ ~ready) \/ req.kind # "stream" \/ phase = "wanted" \/ torn
==============================================================================
