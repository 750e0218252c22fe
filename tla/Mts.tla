--------------------------------- MODULE Mts ---------------------------------
(***************************************************************************)
(* The multi-task scheduler of src/source/mts/mts_new.c: a kernel of       *)
(* MTS_NR_TASK threads with fixed priorities (a lower number is more       *)
(* urgent), synchronous messages, sleep/wake-up, waits for the vertical    *)
(* blank, FIFO semaphores, and a system task (number 0) that starts and    *)
(* ends the others.                                                        *)
(*                                                                         *)
(* One step is what runs with interrupts masked, that is one region        *)
(* between SwEnterCriticalSection and SwExitCriticalSection, or one access *)
(* the code makes outside such a region.  Only the active task steps.      *)
(* Interrupts (VSync, isend) fall between two steps and may switch the     *)
(* active task.  A task that is switched out continues from pc.            *)
(*                                                                         *)
(* What tasks call is a parameter (Sends, Wakes, ...): the program's own   *)
(* discipline, which the kernel does not enforce.                          *)
(***************************************************************************)
EXTENDS Integers, Sequences, SequencesExt

CONSTANTS
  NR_TASK,      \* MTS_NR_TASK: number of task slots
  NR_INT_TASK,  \* MTS_NR_INT_TASK: number of vblank wait slots
  NR_SEM,       \* MTS_MAX_SEMAPHORE: number of semaphores
  BootTask,     \* the task mts_boot starts (MTSID_GAME)
  MaxCount,     \* bound: largest count given to mts_wait_vbl
  CharHalf,     \* a signed char holds -CharHalf .. CharHalf-1 (128 on the PSX)
  WakeLimit,    \* bound: wake-ups one task accumulates while it is READY
  Sends,        \* <<t, d>>: task t calls mts_send(d)
  Receives,     \* <<t, s>>: task t calls mts_receive(s)
  Starts,       \* <<t, n>>: task t calls mts_sta_tsk(n)
  Wakes,        \* <<t, d>>: task t calls mts_wup_tsk(d)
  Locks,        \* <<t, n>>: task t calls mts_lock_sem(n), then mts_unlock_sem(n)
  Resets,       \* <<t, d>>: task t calls mts_reset_interrupt_wait(d)
  Sleepers,     \* tasks that call mts_slp_tsk
  Quitters,     \* tasks that end (mts_ext_tsk, or by returning)
  VblTasks,     \* tasks that call mts_set_vsync_task and mts_wait_vbl
  VblCallbacks, \* those that install a callback which may refuse the wake-up
  Irqs,         \* tasks an interrupt handler calls mts_isend for
  SerialVsync   \* TRUE: no two tasks are inside mts_set_vsync_task at once

Task   == 0 .. NR_TASK - 1
System == 0             \* MTS_TASK_SYSTEM
Idle   == NR_TASK - 1   \* MTS_TASK_IDLE
User   == 1 .. NR_TASK - 2
Slot   == 1 .. NR_INT_TASK
Sem    == 0 .. NR_SEM - 1

INTR         == -1
ANY          == -2
INTR_RESETED == -3
INTR2        == -4

Char     == -CharHalf .. CharHalf - 1
WrapNever(n) == n   \* faulty: a counter as wide as an int
Wrap(n) == ((n + CharHalf) % (2 * CharHalf)) - CharHalf
Source   == (INTR2 .. NR_TASK - 1) \cup Char
MaxAge   == MaxCount + 1

ASSUME SizeAssumption ==
  /\ NR_TASK \in Nat /\ NR_TASK >= 3
  /\ NR_INT_TASK \in Nat /\ NR_SEM \in Nat
  /\ BootTask \in User
  /\ MaxCount \in Nat /\ CharHalf \in Nat \ {0} /\ WakeLimit \in Nat

ASSUME CallAssumption ==
  /\ Sends \subseteq User \X User
  /\ Receives \subseteq User \X (User \cup {ANY, INTR, INTR2})
  /\ Starts \subseteq User \X User
  /\ Wakes \subseteq User \X User
  /\ Locks \subseteq User \X Sem
  /\ Resets \subseteq User \X User
  /\ Sleepers \subseteq User /\ Quitters \subseteq User
  /\ VblCallbacks \subseteq VblTasks /\ VblTasks \subseteq User
  /\ Irqs \subseteq User
  /\ SerialVsync \in BOOLEAN

State == {"dead", "sending", "receiving", "ready", "sleeping", "wait_vbl", "pending"}

\* Where a task goes on when it next runs.
Label == {"run",                                \* its own code
          "wup", "wupinc", "vsync", "vbl",      \* inside a kernel call
          "sem",                                \* holds, or queues for, a semaphore
          "sta", "started", "ext",              \* mts_sta_tsk, mts_ext_tsk
          "recv", "handle", "reply",            \* the system task's loop
          "idle"}

\* MTS_SYS_MSG: code is a request, the answer (0 or -1) or a payload.
Message == [code : {"start", "exit", "ok", "fail", "data"}, tasknr : Task]

NoMessage == [code |-> "data", tasknr |-> 0]

VARIABLES
  active,      \* mts_active_task
  ready,       \* mts_ready_tasks, the bit mask as a set
  state,       \* MTS_TASK.state
  callers,     \* next_task and the task_queue links: tasks queued to send to a task
  pending,     \* MTS_TASK.pending
  src,         \* MTS_TASK.src
  msg,         \* the task's message buffer
  wake_count,  \* MTS_TASK.wake_count
  overrun,     \* MTS_TASK.overrun
  intr,        \* MTS_TASK.intr: the task's slot, or 0
  itask,       \* MTS_ITASK by slot, times relative to mts_time
  chain,       \* the slots linked in mts_itask_chain
  sem_queue,   \* mts_semaphore_waiters and next_sem: the holder, then the waiters
  ticking,     \* mts_init_vsync was called
  pc,          \* where each task continues
  arg,         \* the argument of the call a task is inside
  loaded       \* the wake_count a task has read and not yet written back

vars == <<active, ready, state, callers, pending, src, msg, wake_count, overrun,
          intr, itask, chain, sem_queue, ticking, pc, arg, loaded>>

waitVars == <<intr, itask, chain, ticking>>
linkVars == <<callers, pending, src, msg, overrun>>
callVars == <<pc, arg, loaded>>

TypeOK ==
  /\ active \in Task
  /\ ready \subseteq Task
  /\ state \in [Task -> State]
  /\ callers \in [Task -> Seq(Task)]
  /\ pending \in [Task -> Source]
  /\ src \in [Task -> Source]
  /\ msg \in [Task -> Message]
  /\ wake_count \in [Task -> Char]
  /\ overrun \in [Task -> Char]
  /\ intr \in [Task -> Slot \cup {0}]
  /\ itask \in [Slot -> [tasknr : Task, age : 0 .. MaxAge, due : 0 .. MaxCount]]
  /\ chain \subseteq Slot
  /\ sem_queue \in [Sem -> Seq(Task)]
  /\ ticking \in BOOLEAN
  /\ pc \in [Task -> Label]
  /\ arg \in [Task -> Task \cup Sem]
  /\ loaded \in [Task -> Char]

\* mts_boot: the system, idle and boot tasks exist and the system task runs first.
Init ==
  /\ active = System
  /\ ready = {System, BootTask, Idle}
  /\ state = [t \in Task |-> IF t \in ready THEN "ready" ELSE "dead"]
  /\ callers = [t \in Task |-> <<>>]
  /\ pending = [t \in Task |-> 0]
  /\ src = [t \in Task |-> 0]
  /\ msg = [t \in Task |-> NoMessage]
  /\ wake_count = [t \in Task |-> 0]
  /\ overrun = [t \in Task |-> 0]
  /\ intr = [t \in Task |-> 0]
  /\ itask = [s \in Slot |-> [tasknr |-> 0, age |-> 0, due |-> 0]]
  /\ chain = {}
  /\ sem_queue = [n \in Sem |-> <<>>]
  /\ ticking = FALSE
  /\ pc = [[t \in Task |-> "run"] EXCEPT ![System] = "recv", ![Idle] = "idle"]
  /\ arg = [t \in Task |-> 0]
  /\ loaded = [t \in Task |-> 0]

-----------------------------------------------------------------------------
(* Scheduling. *)

\* mts_FindFirstReadyTask
IsFirstReady(t, r) == t \in r /\ \A u \in r : t <= u

\* mts_SetActiveTaskAndTransferExecution(mts_FindFirstReadyTask()), on the new mask
Dispatch == active' \in {t \in ready' : IsFirstReady(t, ready')}

\* faulty: the comparison the other way round
PreemptsReversed(d) == d > active

\* A task made READY takes the processor only if it is more urgent.
Preempts(d) == d < active

Unready(t) == ready \ {t}

\* The active task leaves the kernel call it is in, or enters its next part.
At(t, label)   == active = t /\ pc[t] = label
Goto(t, label) == pc' = [pc EXCEPT ![t] = label]

-----------------------------------------------------------------------------
(* Messages. *)

\* faulty: a receiver that waits for one task is given the message of another
SendDirectToAny(t, d, m) ==
  /\ state[d] = "receiving"
  /\ src' = [src EXCEPT ![d] = t]
  /\ msg' = [msg EXCEPT ![t] = m, ![d] = m]
  /\ state' = [state EXCEPT ![d] = "ready"]
  /\ ready' = ready \cup {d}
  /\ UNCHANGED <<callers, pending>>

\* mts_send: the receiver is waiting for this sender, or for anyone.
SendDirect(t, d, m) ==
  /\ state[d] = "receiving" /\ src[d] \in {ANY, t}
  /\ src' = [src EXCEPT ![d] = t]
  /\ msg' = [msg EXCEPT ![t] = m, ![d] = m]
  /\ state' = [state EXCEPT ![d] = "ready"]
  /\ ready' = ready \cup {d}
  /\ UNCHANGED <<callers, pending>>

\* mts_send: it is not; the sender queues behind those already waiting.
SendQueued(t, d, m) ==
  /\ ~(state[d] = "receiving" /\ src[d] \in {ANY, t})
  /\ state' = [state EXCEPT ![t] = "sending"]
  /\ ready' = Unready(t)
  /\ msg' = [msg EXCEPT ![t] = m]
  /\ pending' = [pending EXCEPT ![t] = d]
  /\ callers' = [callers EXCEPT ![d] = Append(@, t)]
  /\ UNCHANGED src

Send(t, d, m) ==
  /\ SendDirect(t, d, m) \/ SendQueued(t, d, m)
  /\ Dispatch
  /\ UNCHANGED <<waitVars, sem_queue, wake_count, overrun>>

\* faulty: senders are only looked for by name
AcceptableNamed(t, s) == {i \in DOMAIN callers[t] : s = callers[t][i]}

\* mts_receive: positions in the queue of t whose sender the call accepts.
Acceptable(t, s) == {i \in DOMAIN callers[t] : s \in {ANY, callers[t][i]}}

\* mts_receive takes the i-th queued sender.
ReceiveQueued(t, i) ==
  LET c == callers[t][i] IN
  /\ msg' = [msg EXCEPT ![t] = msg[c]]
  /\ src' = [src EXCEPT ![t] = c]
  /\ state' = [state EXCEPT ![c] = "ready"]
  /\ ready' = ready \cup {c}
  /\ callers' = [callers EXCEPT ![t] = RemoveAt(@, i)]
  /\ UNCHANGED overrun

\* mts_receive blocks.
ReceiveBlock(t, s) ==
  /\ src' = [src EXCEPT ![t] = s]
  /\ state' = [state EXCEPT ![t] = "receiving"]
  /\ ready' = Unready(t)
  /\ overrun' = [overrun EXCEPT ![t] = IF s = INTR THEN 0 ELSE @]
  /\ UNCHANGED <<msg, callers>>

\* mts_receive(INTR2) returns at once with the number of interrupts missed.
ReceiveOverrun(t) ==
  /\ overrun[t] # 0
  /\ src' = [src EXCEPT ![t] = overrun[t]]
  /\ overrun' = [overrun EXCEPT ![t] = 0]
  /\ UNCHANGED <<msg, callers, state, ready>>

Receive(t, s) ==
  /\ pending' = [pending EXCEPT ![t] = s]
  /\ \/ s = INTR /\ ReceiveBlock(t, s)
     \/ s = INTR2 /\ ReceiveOverrun(t)
     \/ s = INTR2 /\ overrun[t] = 0 /\ ReceiveBlock(t, s)
     \/ s \notin {INTR, INTR2} /\ Acceptable(t, s) = {} /\ ReceiveBlock(t, s)
     \/ /\ s \notin {INTR, INTR2}
        /\ \E i \in Acceptable(t, s) :
             /\ \A j \in Acceptable(t, s) : i <= j
             /\ ReceiveQueued(t, i)
  /\ Dispatch
  /\ UNCHANGED <<waitVars, sem_queue, wake_count>>

UserSend(t) ==
  /\ At(t, "run")
  /\ \E d \in User : /\ <<t, d>> \in Sends
                     /\ state[d] # "dead"
                     /\ Send(t, d, [code |-> "data", tasknr |-> t])
  /\ UNCHANGED callVars

UserReceive(t) ==
  /\ At(t, "run")
  /\ \E s \in User \cup {ANY, INTR, INTR2} : <<t, s>> \in Receives /\ Receive(t, s)
  /\ UNCHANGED callVars

\* mts_reset_interrupt_wait
ResetInterruptWait(t) ==
  /\ At(t, "run")
  /\ \E d \in User :
       /\ <<t, d>> \in Resets
       /\ \/ /\ state[d] = "receiving"
             /\ src' = [src EXCEPT ![d] = INTR_RESETED]
             /\ state' = [state EXCEPT ![d] = "ready"]
             /\ ready' = ready \cup {d}
          \/ state[d] # "receiving" /\ UNCHANGED <<src, state, ready>>
  /\ Dispatch
  /\ UNCHANGED <<callers, pending, msg, overrun, waitVars, sem_queue, wake_count, callVars>>

\* mts_isend, from an interrupt handler
ISend(d) ==
  /\ d \in Irqs /\ state[d] # "dead"
  /\ \/ /\ state[d] = "receiving" /\ src[d] \in {INTR, INTR2}
        /\ state' = [state EXCEPT ![d] = "ready"]
        /\ ready' = ready \cup {d}
        /\ IF Preempts(d) THEN Dispatch ELSE UNCHANGED active
        /\ UNCHANGED overrun
     \/ /\ ~(state[d] = "receiving" /\ src[d] \in {INTR, INTR2})
        /\ overrun' = [overrun EXCEPT ![d] = Wrap(@ + 1)]
        /\ UNCHANGED <<active, ready, state>>
  /\ UNCHANGED <<callers, pending, src, msg, waitVars, sem_queue, wake_count, callVars>>

-----------------------------------------------------------------------------
(* Sleep and wake-up. *)

\* mts_slp_tsk
Sleep(t) ==
  /\ At(t, "run") /\ t \in Sleepers
  /\ \/ wake_count[t] > 0 /\ UNCHANGED <<state, ready>>
     \/ /\ wake_count[t] <= 0
        /\ state' = [state EXCEPT ![t] = "sleeping"]
        /\ ready' = Unready(t)
  /\ wake_count' = [wake_count EXCEPT ![t] = 0]
  /\ Dispatch
  /\ UNCHANGED <<linkVars, waitVars, sem_queue, callVars>>

\* faulty: any task that is not READY is woken
WakeableBlocked(d) == state[d] # "ready"

Wakeable(d) == state[d] = "sleeping"

\* mts_wup_tsk tests the state of its target with interrupts enabled ...
WakeTest(t) ==
  /\ At(t, "run")
  /\ \E d \in User :
       /\ <<t, d>> \in Wakes /\ state[d] # "dead"
       /\ \/ Wakeable(d) /\ Goto(t, "wup") /\ UNCHANGED loaded
          \/ /\ state[d] = "ready" /\ wake_count[d] < WakeLimit
             /\ Goto(t, "wupinc")
             /\ loaded' = [loaded EXCEPT ![t] = wake_count[d]]
       /\ arg' = [arg EXCEPT ![t] = d]
  /\ UNCHANGED <<active, ready, state, linkVars, waitVars, sem_queue, wake_count>>

\* ... and makes it READY in a critical section, without testing it again.
WakeSleeper(t) ==
  /\ At(t, "wup")
  /\ state' = [state EXCEPT ![arg[t]] = "ready"]
  /\ ready' = ready \cup {arg[t]}
  /\ IF Preempts(arg[t]) THEN Dispatch ELSE UNCHANGED active
  /\ Goto(t, "run")
  /\ UNCHANGED <<linkVars, waitVars, sem_queue, wake_count, arg, loaded>>

\* wake_count++ on a READY target is a load and a store, with nothing masked.
WakeCount(t) ==
  /\ At(t, "wupinc")
  /\ \E n \in {loaded[t], wake_count[arg[t]]} :
       wake_count' = [wake_count EXCEPT ![arg[t]] = Wrap(n + 1)]
  /\ loaded' = [loaded EXCEPT ![t] = 0]
  /\ Goto(t, "run")
  /\ UNCHANGED <<active, ready, state, linkVars, waitVars, sem_queue, arg>>

-----------------------------------------------------------------------------
(* Waiting for the vertical blank. *)

\* mts_init_vsync
InitVsync(t) ==
  /\ At(t, "run") /\ t = BootTask /\ ~ticking
  /\ ticking' = TRUE
  /\ UNCHANGED <<active, ready, state, linkVars, intr, itask, chain, sem_queue,
                 wake_count, callVars>>

\* faulty: a slot nobody waits on is taken for free
FreeSlotsUnlinked == Slot \ chain

\* get_new_vbl_control_table: slots no task owns
FreeSlots == {s \in Slot : itask[s].tasknr = System}

\* mts_set_vsync_task finds the first free slot and notes it ...
SetVsyncTask(t) ==
  /\ At(t, "run") /\ t \in VblTasks /\ ticking /\ intr[t] = 0
  /\ SerialVsync => \A u \in Task : pc[u] # "vsync"
  /\ \E s \in FreeSlots : /\ \A r \in FreeSlots : s <= r
                          /\ intr' = [intr EXCEPT ![t] = s]
  /\ Goto(t, "vsync")
  /\ UNCHANGED <<active, ready, state, linkVars, itask, chain, ticking, sem_queue,
                 wake_count, arg, loaded>>

\* ... and only then marks it as taken, with nothing masked in between.
\* last = 0 is as long ago as the console has run.
FillSlot(t) ==
  /\ At(t, "vsync")
  /\ \E a \in 0 .. MaxAge :
       itask' = [itask EXCEPT ![intr[t]] = [tasknr |-> t, age |-> a, due |-> 0]]
  /\ Goto(t, "run")
  /\ UNCHANGED <<active, ready, state, linkVars, intr, chain, ticking, sem_queue,
                 wake_count, arg, loaded>>

\* mts_wait_vbl computes its target from the time of its last wake-up; a target
\* in the past becomes the next blank.
WaitVbl(t) ==
  /\ At(t, "run") /\ t \in VblTasks /\ intr[t] # 0
  /\ \E count \in 1 .. MaxCount :
       LET age == itask[intr[t]].age IN
       itask' = [itask EXCEPT ![intr[t]]
                            .due = IF count >= age THEN count - age ELSE 1]
  /\ Goto(t, "vbl")
  /\ UNCHANGED <<active, ready, state, linkVars, intr, chain, ticking, sem_queue,
                 wake_count, arg, loaded>>

\* The critical section of mts_wait_vbl.
JoinChain(t) ==
  /\ At(t, "vbl")
  /\ chain' = chain \cup {intr[t]}
  /\ state' = [state EXCEPT ![t] = "wait_vbl"]
  /\ ready' = Unready(t)
  /\ Dispatch
  /\ Goto(t, "run")
  /\ UNCHANGED <<linkVars, intr, itask, ticking, sem_queue, wake_count, arg, loaded>>

\* faulty: a wait that is overdue is passed over
ExpiredExactly == {s \in chain : itask[s].due = 1}

Expired == {s \in chain : itask[s].due <= 1}

\* mts_VSyncCallback: one tick later, the waits that have expired and that no
\* callback refuses end; the first of them decides whether to switch.
VSync ==
  /\ ticking
  /\ \E refused \in SUBSET {s \in Expired : itask[s].tasknr \in VblCallbacks} :
       LET fired == Expired \ refused
           woken == {itask[s].tasknr : s \in fired}
       IN /\ chain' = chain \ fired
          /\ itask' = [s \in Slot |->
                         [itask[s] EXCEPT
                            !.age = IF s \in fired THEN 0
                                    ELSE IF @ < MaxAge THEN @ + 1 ELSE @,
                            !.due = IF @ > 0 THEN @ - 1 ELSE 0]]
          /\ state' = [t \in Task |-> IF t \in woken THEN "ready" ELSE state[t]]
          /\ ready' = ready \cup woken
          /\ IF \E t \in woken : Preempts(t) THEN Dispatch ELSE UNCHANGED active
  /\ UNCHANGED <<linkVars, intr, ticking, sem_queue, wake_count, callVars>>

-----------------------------------------------------------------------------
(* Semaphores.  The program never nests them, nor blocks while it holds one. *)

\* faulty: one task too many gets in
SemFreeForTwo(n) == Len(sem_queue[n]) <= 1

SemFree(n) == sem_queue[n] = <<>>

\* faulty: a single waiter is taken for none
HasWaiters(rest) == Len(rest) > 1

HasWaiter(rest) == rest # <<>>

Successor(rest) == Head(rest)

\* mts_lock_sem; a task that must wait gives the processor to the holder.
LockSem(t) ==
  /\ At(t, "run")
  /\ \E n \in Sem :
       /\ <<t, n>> \in Locks
       /\ sem_queue' = [sem_queue EXCEPT ![n] = Append(@, t)]
       /\ arg' = [arg EXCEPT ![t] = n]
       /\ \/ SemFree(n) /\ UNCHANGED <<active, ready, state>>
          \/ /\ ~SemFree(n)
             /\ state' = [state EXCEPT ![t] = "pending"]
             /\ ready' = Unready(t)
             /\ active' = Head(sem_queue[n])
  /\ Goto(t, "sem")
  /\ UNCHANGED <<linkVars, waitVars, wake_count, loaded>>

\* mts_unlock_sem: the first waiter becomes the holder and runs at once.
UnlockSem(t) ==
  /\ At(t, "sem")
  /\ LET rest == Tail(sem_queue[arg[t]]) IN
     /\ sem_queue' = [sem_queue EXCEPT ![arg[t]] = rest]
     /\ \/ ~HasWaiter(rest) /\ UNCHANGED <<active, ready, state>>
        \/ /\ HasWaiter(rest)
           /\ state' = [state EXCEPT ![Successor(rest)] = "ready"]
           /\ ready' = ready \cup {Successor(rest)}
           /\ active' = Successor(rest)
  /\ Goto(t, "run")
  /\ UNCHANGED <<linkVars, waitVars, wake_count, arg, loaded>>

-----------------------------------------------------------------------------
(* Starting and ending tasks: requests to the system task. *)

\* mts_sta_tsk sends its request ...
StartTask(t) ==
  /\ At(t, "run")
  /\ \E n \in User : /\ <<t, n>> \in Starts
                     /\ Send(t, System, [code |-> "start", tasknr |-> n])
                     /\ arg' = [arg EXCEPT ![t] = n]
  /\ Goto(t, "sta")
  /\ UNCHANGED loaded

\* faulty: whoever sends next is taken for the system task
AwaitStartFromAny(t) ==
  /\ At(t, "sta")
  /\ Receive(t, ANY)
  /\ Goto(t, "started")
  /\ UNCHANGED <<arg, loaded>>

\* ... receives the answer in the same buffer ...
AwaitStart(t) ==
  /\ At(t, "sta")
  /\ Receive(t, System)
  /\ Goto(t, "started")
  /\ UNCHANGED <<arg, loaded>>

\* ... and returns its code.
StartReturns(t) ==
  /\ At(t, "started")
  /\ Goto(t, "run")
  /\ UNCHANGED <<active, ready, state, linkVars, waitVars, sem_queue, wake_count, arg, loaded>>

\* mts_ext_tsk; a request to end is never answered.
ExitTask(t) ==
  /\ At(t, "run") /\ t \in Quitters
  /\ Send(t, System, [code |-> "exit", tasknr |-> t])
  /\ Goto(t, "ext")
  /\ UNCHANGED <<arg, loaded>>

\* mts_SystemTaskEntrypoint waits for a request,
SystemReceive ==
  /\ At(System, "recv")
  /\ Receive(System, ANY)
  /\ Goto(System, "handle")
  /\ UNCHANGED <<arg, loaded>>

\* creates the task if its slot is free (wake_count keeps its value),
SystemStart ==
  /\ At(System, "handle") /\ msg[System].code = "start"
  /\ LET n == msg[System].tasknr IN
     \/ /\ state[n] = "dead"
        /\ callers' = [callers EXCEPT ![n] = <<>>]
        /\ intr' = [intr EXCEPT ![n] = 0]
        /\ state' = [state EXCEPT ![n] = "ready"]
        /\ ready' = ready \cup {n}
        /\ overrun' = [overrun EXCEPT ![n] = 0]
        /\ pc' = [pc EXCEPT ![n] = "run", ![System] = "reply"]
        /\ msg' = [msg EXCEPT ![System].code = "ok"]
     \/ /\ state[n] # "dead"
        /\ msg' = [msg EXCEPT ![System].code = "fail"]
        /\ Goto(System, "reply")
        /\ UNCHANGED <<callers, intr, state, ready, overrun>>
  /\ UNCHANGED <<active, pending, src, itask, chain, ticking, sem_queue, wake_count,
                 arg, loaded>>


\* ends the sender and frees its vblank slot,
SystemExit ==
  /\ At(System, "handle") /\ msg[System].code = "exit"
  /\ LET c == src[System] IN
     /\ state' = [state EXCEPT ![c] = "dead"]
     /\ ready' = Unready(c)
     /\ itask' = [s \in Slot |-> IF s = intr[c] THEN [itask[s] EXCEPT !.tasknr = System]
                                 ELSE itask[s]]
  /\ Goto(System, "recv")
  /\ UNCHANGED <<active, linkVars, intr, chain, ticking, sem_queue, wake_count, arg, loaded>>

\* and answers.
SystemReply ==
  /\ At(System, "reply")
  /\ Send(System, src[System], msg[System])
  /\ Goto(System, "recv")
  /\ UNCHANGED <<arg, loaded>>

-----------------------------------------------------------------------------
\* What a task does of its own accord, and what it does to finish a call.
Call(t) ==
  \/ UserSend(t) \/ UserReceive(t) \/ ResetInterruptWait(t)
  \/ Sleep(t) \/ WakeTest(t)
  \/ InitVsync(t) \/ SetVsyncTask(t) \/ WaitVbl(t)
  \/ LockSem(t) \/ StartTask(t) \/ ExitTask(t)

Continue(t) ==
  \/ WakeSleeper(t) \/ WakeCount(t)
  \/ FillSlot(t) \/ JoinChain(t)
  \/ UnlockSem(t)
  \/ AwaitStart(t) \/ StartReturns(t)

SystemStep == SystemReceive \/ SystemStart \/ SystemExit \/ SystemReply

Next ==
  \/ \E t \in User : Call(t) \/ Continue(t)
  \/ SystemStep
  \/ VSync
  \/ \E d \in User : ISend(d)

Spec == Init /\ [][Next]_vars

\* Fairness: the console keeps drawing frames; the system task, the most urgent of
\* all, is never preempted; a task that runs finishes the kernel call it is in.
Fairness ==
  /\ WF_vars(VSync)
  /\ WF_vars(SystemStep)
  /\ \A t \in User : WF_vars(Continue(t))

FairSpec == Spec /\ Fairness

\* A frame is long against a kernel call, so that frames cannot preempt a task for
\* ever, and every task comes round to its next mts_wait_vbl.
FrameFairness ==
  \A t \in VblTasks : /\ SF_vars(Continue(t))
                      /\ SF_vars(SetVsyncTask(t))
                      /\ SF_vars(WaitVbl(t))

FrameSpec == FairSpec /\ FrameFairness
=============================================================================
