------------------------------- MODULE MtsInv -------------------------------
(***************************************************************************)
(* What the scheduler must guarantee, and the inductive invariant behind   *)
(* its safety properties.                                                  *)
(***************************************************************************)
EXTENDS Mts

-----------------------------------------------------------------------------
(* Invariants. *)

\* The mask from which mts_FindFirstReadyTask picks the next task agrees with the
\* states, the running task is in it, and it is never empty: idle is always ready.
ReadyMask ==
  /\ \A t \in Task : t \in ready <=> state[t] = "ready"
  /\ active \in ready
  /\ Idle \in ready

\* The list of senders a receiver walks holds every task blocked sending to it,
\* once, and no other: the asserts "rcv sp state" of mts_receive cannot fire.
CallersAreSending ==
  \A d \in Task :
    /\ IsInjective(callers[d])
    /\ \A t \in Task : Contains(callers[d], t) <=> state[t] = "sending" /\ pending[t] = d

\* Positions in the queue of d of the senders a receive from s is meant to accept.
SendersFor(d, s) == {i \in DOMAIN callers[d] : s \in {ANY, callers[d][i]}}

\* A task is never left blocked in mts_receive while a sender it would accept is
\* blocked in its queue: whichever of the two calls comes second completes both.
NoMissedRendezvous ==
  \A d \in Task : state[d] = "receiving" /\ src[d] \notin {INTR, INTR2}
                    => SendersFor(d, src[d]) = {}

\* mts_receive never returns MTS_TASK_ANY as the sender: its assert "RECV ?? SRC".
SenderIsKnown == \A t \in Task : src[t] = ANY => state[t] = "receiving"

\* The buffer of a client holds its own request until the answer replaces it.
Asks(c, m) == \/ pc[c] = "sta" /\ m.code = "start" /\ m.tasknr = arg[c]
              \/ pc[c] = "ext" /\ m.code = "exit"

\* The message d has is what c had to tell it: an answer, a request, or a payload.
Told(c, d) ==
  CASE c = System                 -> msg[d].code \in {"ok", "fail"} /\ msg[d].tasknr = arg[d]
    [] c # System /\ d = System   -> Asks(c, msg[d])
    [] c # System /\ d # System   -> msg[d] = [code |-> "data", tasknr |-> c]

\* mts_receive of a waiting task d returns c; mts_receive takes c out of the senders of d.
Returns(d, c) == state[d] = "receiving" /\ state'[d] # "receiving" /\ src'[d] = c
Fetches(d, c) == state[c] = "sending" /\ pending[c] = d /\ state'[c] # "sending"

\* A receive that waited ends with a task's number only when that task sends, and it was
\* awaited; a sender that waited goes on only when its receiver takes it, awaited by name
\* or as the first of all.  Either way the receiver is told whose message it got, and has
\* what that task sent to it: however often the two meet, whoever else has queued.
FromSender ==
  \A c, d \in Task :
    /\ Returns(d, c) => active = c /\ src[d] \in {c, ANY} /\ Told(c, d)'
    /\ Fetches(d, c) => /\ active = d /\ src'[d] = c /\ Told(c, d)'
                        /\ \/ pending'[d] = c
                           \/ pending'[d] = ANY /\ c = Head(callers[d])

MessageFromSender == [][FromSender]_vars

\* Between the test and the critical section of mts_wup_tsk the target does not
\* leave for another wait, which the wake-up would then end.
WakesSleepers ==
  \A t \in User : pc[t] = "wup" => state[arg[t]] \in {"sleeping", "ready"}

\* A task that found its target READY increments wake_count while it still is.
CountsReady == \A t \in User : pc[t] = "wupinc" => state[arg[t]] = "ready"

\* Two tasks never share a vblank slot, and a slot names the task to wake.
SlotOwner ==
  \A t \in User : state[t] # "dead" /\ intr[t] # 0 /\ pc[t] # "vsync"
                    => itask[intr[t]].tasknr = t

\* The chain VSync walks holds the slots of exactly the tasks in mts_wait_vbl.
ChainIsWaiting ==
  /\ \A s \in chain : state[itask[s].tasknr] = "wait_vbl" /\ intr[itask[s].tasknr] = s
  /\ \A t \in Task : state[t] = "wait_vbl" => intr[t] \in chain /\ itask[intr[t]].tasknr = t

\* Between mts_lock_sem and mts_unlock_sem a task has the semaphore to itself.
HoldsSem(t, n) == pc[t] = "sem" /\ arg[t] = n /\ state[t] # "pending"

SemMutex ==
  \A t, u \in User, n \in Sem : HoldsSem(t, n) /\ HoldsSem(u, n) => t = u

\* The tasks behind the holder in the queue of a semaphore are those PENDING on it.
SemWaiters ==
  \A n \in Sem :
    /\ IsInjective(sem_queue[n])
    /\ \A t \in Task : Contains(sem_queue[n], t) <=> pc[t] = "sem" /\ arg[t] = n
    /\ \A i \in DOMAIN sem_queue[n] : state[sem_queue[n][i]] = "pending" <=> i > 1

\* A READY task more urgent than the running one waits only while the running
\* task holds a semaphore that a still more urgent task is blocked on.
Inherits(t, u) == \E w \in User : /\ w < u /\ state[w] = "pending"
                                  /\ pc[t] = "sem" /\ arg[t] = arg[w]

UrgentRuns == \A u \in ready : u < active => Inherits(active, u)

\* The system task serves only user tasks (assert "system client"), and the
\* request it holds is the one its sender is blocked on; nobody is queued on a
\* task that ends (assert "system exit caller").
ServesClient ==
  active = System /\ pc[System] = "handle" =>
    /\ src[System] \in User
    /\ msg[System].code = "start" => pc[src[System]] = "sta"
    /\ msg[System].code = "exit" => /\ pc[src[System]] = "ext"
                                    /\ callers[src[System]] = <<>>

\* mts_sta_tsk returns the answer to its own request, from the system task
\* (assert "mts_sta_tsk server").
StartAnswered ==
  \A t \in User : pc[t] = "started" /\ state[t] = "ready" =>
    /\ src[t] = System
    /\ msg[t].code \in {"ok", "fail"} /\ msg[t].tasknr = arg[t]

\* mts_ext_tsk does not return: the task is gone before it is scheduled again.
ExitIsFinal == \A t \in User : pc[t] = "ext" => active # t

-----------------------------------------------------------------------------
(* Liveness. *)

\* A task in mts_wait_vbl is woken, as long as frames are drawn.
VblWakes ==
  \A t \in VblTasks \ VblCallbacks : state[t] = "wait_vbl" ~> state[t] # "wait_vbl"


\* A task PENDING on a semaphore gets it.
LockGranted == \A t \in User : state[t] = "pending" ~> state[t] = "ready"

-----------------------------------------------------------------------------
(* The inductive invariant. *)

\* What the program does and the kernel does not check: vblank slots are taken one
\* task at a time, wake-ups go to less urgent tasks, and nobody sends to a task
\* that may end.
Discipline ==
  /\ SerialVsync
  /\ \A w \in Wakes : w[1] < w[2]
  /\ \A s \in Sends : s[2] \notin Quitters

\* What the program does as well: no semaphore is for more than two tasks.
SharedByTwo ==
  \A t, u, v \in User, n \in Sem :
    <<t, n>> \in Locks /\ <<u, n>> \in Locks /\ <<v, n>> \in Locks => t = u \/ u = v \/ t = v

\* The state a task may be in, by where it continues.
Labels ==
  /\ pc[Idle] = "idle"
  /\ pc[System] \in {"recv", "handle", "reply"}
  /\ \A t \in User :
       /\ pc[t] \notin {"recv", "handle", "reply", "idle"}
       /\ pc[t] \in {"wup", "wupinc", "vsync", "vbl", "started"} => state[t] = "ready"
       /\ pc[t] = "sem" => state[t] \in {"ready", "pending"}
       /\ pc[t] = "sta" => state[t] \in {"ready", "sending"}
       /\ pc[t] = "ext" => state[t] \in {"ready", "sending", "dead"}
       /\ pc[t] = "ext" => t \in Quitters
       /\ pc[t] = "run" => state[t] # "pending"

\* A task between the two parts of mts_wup_tsk keeps the processor from its less
\* urgent target, but for the time the target holds up a semaphore.
Waking ==
  \A t \in User : pc[t] \in {"wup", "wupinc"} =>
    LET d == arg[t] IN
    /\ d \in User /\ t < d
    /\ state[d] \in {"sleeping", "ready"}
    /\ pc[t] = "wupinc" => state[d] = "ready"
    /\ pc[d] # "ext"
    /\ active = d => pc[d] = "sem" /\ Len(sem_queue[arg[d]]) > 1

Semaphores ==
  /\ \A t \in User : pc[t] = "sem" => arg[t] \in Sem
  /\ SemWaiters

Slots ==
  /\ SlotOwner
  /\ ChainIsWaiting
  /\ \A t \in User : pc[t] = "vsync" => /\ intr[t] # 0 /\ intr[t] \notin chain
                                        /\ itask[intr[t]].tasknr = System
  /\ \A t \in User : pc[t] = "vbl" => intr[t] # 0
  /\ \A t, u \in User : pc[t] = "vsync" /\ pc[u] = "vsync" => t = u
  /\ intr[System] = 0 /\ intr[Idle] = 0

Callers ==
  /\ CallersAreSending
  /\ \A t \in User : state[t] = "sending" /\ pending[t] # System
                       => pc[t] = "run" /\ <<t, pending[t]>> \in Sends
  /\ \A d \in Task : state[d] = "dead" => callers[d] = <<>>

\* What the system task answers.
Answers(c, m) == pc[c] = "sta" /\ m.code \in {"ok", "fail"} /\ m.tasknr = arg[c]

\* The system task has the processor whenever it is READY, and its client neither
\* runs nor blocks until it is answered.
Service ==
  /\ state[System] \in {"ready", "receiving", "sending"}
  /\ state[System] = "ready" => active = System
  /\ state[System] = "receiving" => pc[System] = "handle" /\ src[System] = ANY
  /\ state[System] = "ready" /\ pc[System] = "handle"
       => src[System] \in User /\ state[src[System]] = "ready" /\ Asks(src[System], msg[System])
  /\ pc[System] = "reply" => state[System] = "ready"
  /\ pc[System] = "reply" \/ state[System] = "sending"
       => src[System] \in User /\ state[src[System]] = "ready"
          /\ Answers(src[System], msg[System])
  /\ state[System] = "sending" => pc[System] = "recv" /\ pending[System] = src[System]

Clients ==
  \A t \in User :
    /\ state[t] = "sending" /\ pending[t] = System => Asks(t, msg[t])
    /\ pc[t] \in {"sta", "ext"} /\ state[t] = "sending" => pending[t] = System
    /\ pc[t] = "sta" /\ state[t] = "ready"
         => /\ src[System] = t
            /\ state[System] = "sending" \/ pc[System] \in {"handle", "reply"}
            /\ state[System] # "receiving"
    /\ pc[t] = "ext" /\ state[t] = "ready"
         => src[System] = t /\ pc[System] = "handle" /\ state[System] = "ready"
    /\ pc[t] = "started" => /\ src[t] = System
                            /\ msg[t].code \in {"ok", "fail"} /\ msg[t].tasknr = arg[t]

\* The buffer of a task that is blocked sending to another holds what it sends.
Payloads ==
  \A t \in User : state[t] = "sending" /\ pending[t] # System
                    => msg[t] = [code |-> "data", tasknr |-> t]

\* Only tasks that use a semaphore are in its queue, and of two the second is more urgent:
\* it ran, and was refused, while the first was READY.
Queued ==
  \A n \in Sem :
    /\ \A i \in DOMAIN sem_queue[n] : <<sem_queue[n][i], n>> \in Locks
    /\ Len(sem_queue[n]) > 1 => sem_queue[n][2] < sem_queue[n][1]

IInv == /\ TypeOK /\ ReadyMask /\ Labels /\ Waking /\ Semaphores
        /\ Slots /\ Callers /\ Service /\ Clients
=============================================================================
