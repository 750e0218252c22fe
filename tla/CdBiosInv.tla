----------------------------- MODULE CdBiosInv -----------------------------
(***************************************************************************)
(* The inductive invariant of CdBios.                                      *)
(***************************************************************************)
EXTENDS CdBios

Label == {"loop", "stop", "pause", "take", "taken", "test", "started", "clear", "switch",
          "install", "read", "seek", "wait", "error", "silence", "reset", "retry",
          "reinstall", "reread", "reseek"}

\* No interrupt can come for the callback, now or after the next blank.
Blocked == ~ready \/ ~reading \/ seeking > 0
BlockedLong == ~ready \/ ~reading \/ seeking > 1

\* The read of the latest request has come to its end, or that of the one before whose
\* place the latest takes.
Finished == IF call # "none" THEN ~loose
            ELSE IF req.kind = "stream" THEN phase = "over" \/ ended ELSE remaining = 0

Typed ==
  /\ TypeOK
  /\ pc \in Label /\ next_state \in {"idle", "error", "invalid"}
  /\ failed_reads <= faults
  /\ pc \in {"install", "read", "seek", "reinstall", "reread", "reseek"} => loc \in Place
  /\ pc \in {"started", "clear", "install", "read"} => state = "start"
  /\ pc \in {"seek", "reseek"} => state = "read"
  /\ pc \in {"reset", "retry", "reinstall", "reread"} => state = "error"
  /\ pc = "taken" => state \in {"idle", "error"}
  /\ state = "start" => Starting
  /\ pc = "started" => start_flag

\* The latest request is one that can be made.
Asked ==
  /\ req.id = 0 => /\ req = NoRequest /\ remaining = 0 /\ phase = "over"
                 /\ call = "none" /\ ~loose /\ ~torn
  /\ req.length \in (IF req.kind = "stream" THEN {Endless} ELSE Length)
  /\ ended => phase = "stopped"
  /\ req.kind # "stream" => phase = "wanted" \/ req.id = 0
  /\ call # "none" => torn \/ (phase = "wanted" /\ ~ended)

\* What a request has stored so far is its own, and the rest goes on from there.
Described ==
  /\ call \in {"remaining", "sector", "callback", "flags"} => buffer = [id |-> req.id, next |-> 0]
  /\ call \in {"sector", "callback", "flags"} =>
       remaining = IF req.kind = "stage" THEN 1 ELSE req.length
  /\ call \in {"callback", "flags"} => sector = req.first
  /\ call = "flags" => callback = CallbackOf(req) /\ sectors_delivered = 0
  /\ call = "none" =>
       /\ buffer = [id |-> req.id, next |-> sectors_delivered]
       /\ callback = CallbackOf(req)
       /\ sector = req.first + sectors_delivered
       /\ req.id > 0 => remaining = IF req.kind = "stage" /\ sectors_delivered = 0 THEN 1
                                    ELSE req.length - sectors_delivered

\* The task has not seen more sectors than have come.
Seen == ~Waits /\ (Starting => pc \in {"install", "read", "seek"}) => last_sector <= sector

Silent == pc \in {"reset", "retry", "reinstall", "pause"} => ~ready

\* An error that the task has yet to see, or is about to act on.
Erring ==
  /\ next_state = "error" => Blocked \/ Waits \/ Starting \/ pc = "silence"
  /\ next_state = "error" /\ pc = "wait" => BlockedLong \/ Waits
  /\ next_state = "error" /\ (pc = "reread" \/ (pc \in {"test", "switch"} /\ state = "read"))
       => ~ready \/ Waits
  /\ state = "error" =>
       /\ pc = "wait" => BlockedLong \/ Waits \/ stop_flag
       /\ pc = "loop" => Blocked \/ Waits \/ stop_flag
       /\ pc \in {"take", "taken", "test"} => Blocked \/ Waits
       /\ pc = "switch" => Blocked \/ Waits
       /\ pc \in {"test", "switch", "reset", "retry", "reinstall"} => next_state = "invalid" \/ Waits

\* An end of the read that the task has yet to see, or has seen.
Idling ==
  /\ next_state = "idle" =>
       /\ ~ready \/ Waits \/ pc \in {"stop", "clear"} \/ (stop_flag /\ pc # "take")
       /\ pc = "install" \/ (pc = "switch" /\ state = "start") => stop_flag \/ Waits
  /\ state = "idle" => ~ready \/ (Waits /\ (loose \/ pc \in {"taken", "test"}))

Finishing ==
  Finished =>
    /\ ~ready /\ ~stop_flag /\ ~start_flag /\ ~Starting
    /\ pc \notin {"error", "reset", "retry", "reinstall"}
    /\ pc \in {"wait", "loop", "take"} => next_state = "idle" \/ (state = "idle" /\ next_state = "invalid")
    /\ pc \in {"silence", "reread", "reseek"} => next_state = "idle"
    /\ pc = "taken" => state = "idle"
    /\ pc \in {"test", "switch"} => \/ state = "idle" /\ next_state = "invalid"
                                    \/ state = "read" /\ next_state = "idle" /\ (last_sector < sector \/ Waits)

\* All of this is so as long as the request is not torn.
Sound == Described /\ Seen /\ Erring /\ Idling /\ Finishing

IInv == Typed /\ Asked /\ Silent /\ (torn \/ Sound)
=============================================================================
