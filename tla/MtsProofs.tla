------------------------------ MODULE MtsProofs ------------------------------
(***************************************************************************)
(* What the scheduler guarantees, for any number of tasks, slots and       *)
(* semaphores, to a program that keeps the discipline: first the queues,   *)
(* then the inductive invariant, one lemma per action, then the theorems,  *)
(* each of which is a part of the invariant or follows from it.            *)
(***************************************************************************)
EXTENDS MtsInv, SequenceTheorems, TLAPS

-----------------------------------------------------------------------------
(* Sequences used as queues, each element there once. *)

\* Removing one position shifts those behind it.
LEMMA RemoveAtElements ==
  ASSUME NEW S, NEW q \in Seq(S), NEW i \in DOMAIN q
  PROVE  /\ RemoveAt(q, i) \in Seq(S)
         /\ Len(RemoveAt(q, i)) = Len(q) - 1
         /\ \A j \in 1 .. Len(q) - 1 : RemoveAt(q, i)[j] = IF j < i THEN q[j] ELSE q[j + 1]
<1>1. i \in 1 .. Len(q) /\ Len(q) \in Nat /\ \A j \in 1 .. Len(q) : q[j] \in S
  BY LenProperties, ElementOfSeq
<1> DEFINE a == SubSeq(q, 1, i - 1)
           b == SubSeq(q, i + 1, Len(q))
<1>2. /\ a \in Seq(S) /\ Len(a) = i - 1
      /\ \A j \in 1 .. i - 1 : a[j] = q[j]
  BY <1>1, SubSeqProperties
<1>3. /\ b \in Seq(S) /\ Len(b) = Len(q) - i
      /\ \A j \in 1 .. Len(q) - i : b[j] = q[i + j]
  <2>1. /\ i + 1 \in Int /\ \A j \in i + 1 .. Len(q) : q[j] \in S
    BY <1>1
  <2>2. /\ b \in Seq(S) /\ Len(b) = IF i + 1 <= Len(q) THEN Len(q) - (i + 1) + 1 ELSE 0
        /\ \A j \in 1 .. Len(q) - (i + 1) + 1 : b[j] = q[(i + 1) + j - 1]
    BY <1>1, <2>1, SubSeqProperties
  <2> QED BY <1>1, <2>2
<1> HIDE DEF a, b
<1>4. /\ a \o b \in Seq(S) /\ Len(a \o b) = Len(q) - 1
      /\ \A j \in 1 .. Len(q) - 1 : (a \o b)[j] = IF j <= i - 1 THEN a[j] ELSE b[j - (i - 1)]
  <2>1. /\ a \o b \in Seq(S) /\ Len(a \o b) = Len(a) + Len(b)
        /\ \A j \in 1 .. Len(a) + Len(b) : (a \o b)[j] = IF j <= Len(a) THEN a[j] ELSE b[j - Len(a)]
    BY <1>2, <1>3, ConcatProperties
  <2>2. Len(a) + Len(b) = Len(q) - 1
    BY <1>1, <1>2, <1>3
  <2> QED BY <1>2, <2>1, <2>2
<1>5. RemoveAt(q, i) = a \o b
  BY DEF RemoveAt, a, b
<1>6. ASSUME NEW j \in 1 .. Len(q) - 1
      PROVE  (a \o b)[j] = IF j < i THEN q[j] ELSE q[j + 1]
  <2>1. CASE j < i
    <3>1. j \in 1 .. i - 1 /\ j <= i - 1
      BY <1>1, <2>1
    <3> QED BY <1>2, <1>4, <2>1, <3>1
  <2>2. CASE ~(j < i)
    <3>1. j - (i - 1) \in 1 .. Len(q) - i /\ ~(j <= i - 1) /\ i + (j - (i - 1)) = j + 1
      BY <1>1, <2>2
    <3>2. b[j - (i - 1)] = q[i + (j - (i - 1))]
      BY <1>3, <3>1
    <3> QED BY <1>4, <2>2, <3>1, <3>2
  <2> QED BY <2>1, <2>2
<1> QED BY <1>4, <1>5, <1>6

\* A queue is used through the set of its elements: removal takes one out, ...
LEMMA RemoveAtQueue ==
  ASSUME NEW S, NEW q \in Seq(S), NEW i \in DOMAIN q, IsInjective(q)
  PROVE  /\ RemoveAt(q, i) \in Seq(S) /\ IsInjective(RemoveAt(q, i))
         /\ \A x : Contains(RemoveAt(q, i), x) <=> Contains(q, x) /\ x # q[i]
<1> DEFINE r == RemoveAt(q, i)
<1>1. Len(q) \in Nat /\ DOMAIN q = 1 .. Len(q) /\ i \in 1 .. Len(q)
  BY LenProperties
<1>2. /\ r \in Seq(S) /\ Len(r) = Len(q) - 1 /\ DOMAIN r = 1 .. Len(r)
      /\ \A j \in 1 .. Len(q) - 1 : r[j] = IF j < i THEN q[j] ELSE q[j + 1]
  BY RemoveAtElements, LenProperties
<1> HIDE DEF r
<1>3. IsInjective(r)
  <2> DEFINE p(j) == IF j < i THEN j ELSE j + 1
  <2>1. \A j \in 1 .. Len(r) : p(j) \in 1 .. Len(q) /\ r[j] = q[p(j)]
    BY <1>1, <1>2
  <2>2. \A j, k \in 1 .. Len(r) : p(j) = p(k) => j = k
    BY <1>1
  <2> HIDE DEF p
  <2>3. \A j, k \in 1 .. Len(r) : r[j] = r[k] => p(j) = p(k)
    BY <1>1, <2>1 DEF IsInjective
  <2> QED BY <1>2, <2>2, <2>3 DEF IsInjective
<1>4. ASSUME NEW x, Contains(r, x) PROVE Contains(q, x) /\ x # q[i]
  BY <1>1, <1>2, <1>4 DEF IsInjective, Contains
<1>5. ASSUME NEW x, Contains(q, x), x # q[i] PROVE Contains(r, x)
  <2>1. PICK j \in 1 .. Len(q) : q[j] = x
    BY <1>5 DEF Contains
  <2>2. CASE j < i
    BY <1>1, <1>2, <2>1, <2>2 DEF Contains
  <2>3. CASE j > i
    <3>1. j - 1 \in 1 .. Len(r) /\ r[j - 1] = q[j]
      BY <1>1, <1>2, <2>1, <2>3
    <3> QED BY <3>1, <2>1 DEF Contains
  <2> QED BY <1>1, <1>5, <2>1, <2>2, <2>3
<1> QED BY <1>2, <1>3, <1>4, <1>5 DEF r

\* ... appending adds one, ...
LEMMA AppendQueue ==
  ASSUME NEW S, NEW q \in Seq(S), NEW e \in S, IsInjective(q), ~Contains(q, e)
  PROVE  /\ Append(q, e) \in Seq(S) /\ IsInjective(Append(q, e))
         /\ \A x : Contains(Append(q, e), x) <=> Contains(q, x) \/ x = e
<1> DEFINE r == Append(q, e)
<1>1. Len(q) \in Nat /\ DOMAIN q = 1 .. Len(q)
  BY LenProperties
<1>2. /\ r \in Seq(S) /\ Len(r) = Len(q) + 1 /\ DOMAIN r = 1 .. Len(r)
      /\ \A j \in 1 .. Len(q) : r[j] = q[j]
      /\ r[Len(q) + 1] = e
  BY AppendProperties, LenProperties
<1> HIDE DEF r
<1>3. IsInjective(r)
  BY <1>1, <1>2 DEF IsInjective, Contains
<1>4. \A x : Contains(r, x) <=> Contains(q, x) \/ x = e
  BY <1>1, <1>2 DEF Contains
<1> QED BY <1>2, <1>3, <1>4 DEF r

\* ... and the tail is all but the head.
LEMMA TailQueue ==
  ASSUME NEW S, NEW q \in Seq(S), q # <<>>, IsInjective(q)
  PROVE  /\ Tail(q) \in Seq(S) /\ IsInjective(Tail(q)) /\ Head(q) = q[1] /\ Len(q) > 0
         /\ Len(Tail(q)) = Len(q) - 1 /\ \A j \in 1 .. Len(q) - 1 : Tail(q)[j] = q[j + 1]
         /\ \A x : Contains(Tail(q), x) <=> Contains(q, x) /\ x # q[1]
<1> DEFINE r == Tail(q)
<1>1. Len(q) \in Nat /\ DOMAIN q = 1 .. Len(q) /\ Len(q) > 0 /\ Head(q) = q[1]
  BY LenProperties, EmptySeq
<1>2. /\ r \in Seq(S) /\ Len(r) = Len(q) - 1 /\ DOMAIN r = 1 .. Len(r)
      /\ \A j \in 1 .. Len(q) - 1 : r[j] = q[j + 1]
  BY <1>1, HeadTailProperties, LenProperties
<1> HIDE DEF r
<1>3. IsInjective(r)
  BY <1>1, <1>2 DEF IsInjective
<1>4. ASSUME NEW x, Contains(r, x) PROVE Contains(q, x) /\ x # q[1]
  BY <1>1, <1>2, <1>4 DEF IsInjective, Contains
<1>5. ASSUME NEW x, Contains(q, x), x # q[1] PROVE Contains(r, x)
  <2>1. PICK j \in 1 .. Len(q) : q[j] = x
    BY <1>5 DEF Contains
  <2>2. j - 1 \in 1 .. Len(r) /\ r[j - 1] = q[j]
    BY <1>1, <1>2, <1>5, <2>1
  <2> QED BY <2>1, <2>2 DEF Contains
<1> QED BY <1>1, <1>2, <1>3, <1>4, <1>5 DEF r

-----------------------------------------------------------------------------
(* Constants. *)

LEMMA Constants ==
  /\ System \in Task /\ Idle \in Task /\ User \subseteq Task /\ Task \subseteq Int
  /\ System \notin User /\ Idle \notin User /\ System # Idle
  /\ \A t \in Task : t = System \/ t = Idle \/ t \in User
  /\ \A t \in Task : System <= t /\ t <= Idle
BY SizeAssumption DEF System, Idle, User, Task

LEMMA Sources ==
  /\ Task \subseteq Source /\ Char \subseteq Source /\ 0 \in Char
  /\ ANY \in Source /\ INTR \in Source /\ INTR2 \in Source /\ INTR_RESETED \in Source
  /\ ANY \notin Task /\ INTR \notin Task /\ INTR2 \notin Task /\ INTR_RESETED \notin Task
  /\ ANY # INTR /\ ANY # INTR2 /\ INTR # INTR2
BY SizeAssumption DEF Task, Source, Char, ANY, INTR, INTR2, INTR_RESETED

LEMMA WrapInChar == ASSUME NEW n \in Char PROVE Wrap(n + 1) \in Char
BY SizeAssumption DEF Wrap, Char

LEMMA CallTargets ==
  /\ \A t, d : <<t, d>> \in Sends => t \in User /\ d \in User
  /\ \A t, d : <<t, d>> \in Wakes => t \in User /\ d \in User
  /\ \A t, n : <<t, n>> \in Locks => t \in User /\ n \in Sem
BY CallAssumption

-----------------------------------------------------------------------------
(* What an action leaves alone. *)

PlainLabels == {"run", "wup", "wupinc", "vsync", "vbl"}
LooseStates == {"ready", "sleeping", "receiving", "wait_vbl"}

Same(u) == /\ pc'[u] = pc[u] /\ state'[u] = state[u] /\ arg'[u] = arg[u]
           /\ msg'[u] = msg[u] /\ src'[u] = src[u] /\ pending'[u] = pending[u]

Loose(u) == /\ u \in User
            /\ pc[u] \in PlainLabels \cup {"started"} /\ pc'[u] \in PlainLabels
            /\ state[u] \in LooseStates /\ state'[u] \in LooseStates

LEMMA SemaphoresFrame ==
  ASSUME IInv, sem_queue' = sem_queue,
         \A u \in Task : /\ pc'[u] = "sem" <=> pc[u] = "sem"
                         /\ pc[u] = "sem" => arg'[u] = arg[u]
                         /\ state'[u] = "pending" <=> state[u] = "pending"
  PROVE  Semaphores'
<1> USE Constants
<1>1. TypeOK /\ Semaphores
  BY DEF IInv
<1>2. \A n \in Sem : sem_queue[n] \in Seq(Task) /\ \A i \in DOMAIN sem_queue[n] : sem_queue[n][i] \in Task
  BY <1>1, ElementOfSeq, LenProperties DEF TypeOK
<1>3. ASSUME NEW n \in Sem, NEW i \in DOMAIN sem_queue[n]
      PROVE  state'[sem_queue[n][i]] = "pending" <=> i > 1
  <2>1. sem_queue[n][i] \in Task /\ (state[sem_queue[n][i]] = "pending" <=> i > 1)
    BY <1>1, <1>2 DEF Semaphores, SemWaiters
  <2> QED BY <2>1
<1> QED BY <1>1, <1>3 DEF Semaphores, SemWaiters

LEMMA PlainFrame ==
  ASSUME IInv, callers' = callers, sem_queue' = sem_queue,
         \A u \in Task : Same(u) \/ Loose(u),
         state[System] = "ready" => active' = System
  PROVE  Semaphores' /\ Callers' /\ Service' /\ Clients'
<1> USE Constants DEF Same, Loose, PlainLabels, LooseStates
<1>1. TypeOK /\ Labels /\ Semaphores /\ Callers /\ Service /\ Clients
  BY DEF IInv
<1>2. Semaphores'
  BY SemaphoresFrame
<1>3. Callers'
  <2>1. \A t \in Task : (state'[t] = "sending" <=> state[t] = "sending")
           /\ (state[t] = "sending" => pending'[t] = pending[t] /\ pc'[t] = pc[t])
           /\ (state'[t] = "dead" <=> state[t] = "dead")
    OBVIOUS
  <2> QED BY <1>1, <2>1 DEF Callers, CallersAreSending
<1>4. Same(System)
  OBVIOUS
<1>5. Service'
  <2> DEFINE c == src[System]
  <2>1. src'[System] = c /\ msg'[System] = msg[System] /\ pc'[System] = pc[System]
        /\ state'[System] = state[System] /\ pending'[System] = pending[System]
    BY <1>4
  <2>2. c \in User /\ pc[c] \in {"sta", "ext"} => Same(c)
    OBVIOUS
  <2> HIDE DEF Loose, PlainLabels, LooseStates
  <2>3. (state[System] = "ready" /\ pc[System] = "handle"
           => c \in User /\ state[c] = "ready" /\ Asks(c, msg[System]))'
    BY <1>1, <2>1, <2>2 DEF Service, Asks
  <2>4. (pc[System] = "reply" \/ state[System] = "sending"
           => c \in User /\ state[c] = "ready" /\ Answers(c, msg[System]))'
    BY <1>1, <2>1, <2>2 DEF Service, Answers
  <2> QED BY <1>1, <2>1, <2>3, <2>4 DEF Service
<1>6. Clients'
  BY <1>1, <1>4 DEF Clients, Asks
<1> QED BY <1>2, <1>3, <1>5, <1>6

LEMMA SlotsFrame ==
  ASSUME IInv, intr' = intr, chain' = chain,
         \A s \in Slot : itask'[s].tasknr = itask[s].tasknr,
         \A t \in Task : /\ pc'[t] = "vsync" <=> pc[t] = "vsync"
                         /\ pc'[t] = "vbl" => pc[t] = "vbl" \/ intr[t] # 0
                         /\ state'[t] = "wait_vbl" <=> state[t] = "wait_vbl"
                         /\ state'[t] = "dead" <=> state[t] = "dead"
  PROVE  Slots'
<1> USE Constants
<1>1. TypeOK /\ Slots
  BY DEF IInv
<1>2. \A t \in Task : intr[t] \in Slot \cup {0}
  BY <1>1 DEF TypeOK
<1>3. \A s \in Slot : itask[s].tasknr \in Task
  BY <1>1 DEF TypeOK
<1>4. SlotOwner'
  BY <1>1, <1>2 DEF Slots, SlotOwner
<1>5. ChainIsWaiting'
  BY <1>1, <1>2, <1>3 DEF Slots, ChainIsWaiting, TypeOK
<1> QED BY <1>1, <1>2, <1>4, <1>5 DEF Slots

\* A target of mts_wup_tsk does not get the processor ahead of its waker.
LEMMA WakingFrame ==
  ASSUME IInv, TypeOK', ReadyMask', Labels',
         \A t \in User : pc'[t] \in {"wup", "wupinc"} => pc'[t] = pc[t] /\ arg'[t] = arg[t],
         \A u \in User : state[u] \in {"sleeping", "ready"}
                           => \/ state'[u] \in {state[u], "ready"}
                              \/ u = active /\ pc[u] # "sem"
                              \/ pc[u] = "ext",
         \A u \in User : pc'[u] = "ext" => pc[u] = "ext" \/ (u = active /\ pc[u] # "sem"),
         \/ IsFirstReady(active', ready')
         \/ /\ active' = active
            /\ pc[active] = "sem" => /\ pc'[active] = "sem" /\ arg'[active] = arg[active]
                                     /\ sem_queue' = sem_queue
  PROVE  Waking'
<1> USE Constants
<1>1. TypeOK /\ Waking
  BY DEF IInv
<1> SUFFICES ASSUME NEW t \in User, pc'[t] \in {"wup", "wupinc"}
             PROVE  LET d == arg'[t] IN
                    /\ d \in User /\ t < d
                    /\ state'[d] \in {"sleeping", "ready"}
                    /\ pc'[t] = "wupinc" => state'[d] = "ready"
                    /\ pc'[d] # "ext"
                    /\ active' = d => pc'[d] = "sem" /\ Len(sem_queue'[arg'[d]]) > 1
  BY DEF Waking
<1> DEFINE d == arg[t]
<1>2. /\ arg'[t] = d /\ pc'[t] = pc[t] /\ d \in User /\ t < d
      /\ state[d] \in {"sleeping", "ready"}
      /\ pc[t] = "wupinc" => state[d] = "ready"
      /\ pc[d] # "ext"
      /\ active = d => pc[d] = "sem" /\ Len(sem_queue[arg[d]]) > 1
  BY <1>1 DEF Waking
<1>3. state'[d] \in {state[d], "ready"} /\ pc'[d] # "ext"
  BY <1>2
<1>4. t \in ready'
  BY DEF Labels, ReadyMask
<1>5. active' = d => pc'[d] = "sem" /\ Len(sem_queue'[arg'[d]]) > 1
  <2>1. CASE IsFirstReady(active', ready')
    BY <1>2, <1>4, <2>1 DEF IsFirstReady
  <2>2. CASE /\ active' = active
             /\ pc[active] = "sem" => /\ pc'[active] = "sem" /\ arg'[active] = arg[active]
                                      /\ sem_queue' = sem_queue
    BY <1>2, <2>2
  <2> QED BY <2>1, <2>2
<1> QED BY <1>2, <1>3, <1>5

LEMMA Running ==
  ASSUME IInv, NEW t \in User, active = t
  PROVE  /\ t \in Task /\ t # System /\ t # Idle
         /\ state[t] = "ready" /\ t \in ready
         /\ state[System] # "ready" /\ state[Idle] = "ready"
BY Constants DEF IInv, TypeOK, ReadyMask, Service

LEMMA DispatchFirst == Dispatch <=> active' \in ready' /\ IsFirstReady(active', ready')
BY DEF Dispatch, IsFirstReady

-----------------------------------------------------------------------------
(* One lemma per action. *)

LEMMA SleepStep == ASSUME IInv, NEW t \in User, Sleep(t) PROVE IInv'
<1> USE Constants
<1>0. /\ active = t /\ pc[t] = "run" /\ Dispatch
      /\ UNCHANGED <<callers, pending, src, msg, overrun, intr, itask, chain, ticking,
                     sem_queue, pc, arg, loaded>>
  BY DEF Sleep, At, linkVars, waitVars, callVars
<1>1. t \in Task /\ t # System /\ t # Idle /\ state[t] = "ready" /\ t \in ready
      /\ state[System] # "ready" /\ state[Idle] = "ready"
  BY <1>0, Running
<1>2. /\ state' = state \/ state' = [state EXCEPT ![t] = "sleeping"]
      /\ state' = state => ready' = ready
      /\ state' # state => ready' = ready \ {t}
      /\ wake_count' = [wake_count EXCEPT ![t] = 0]
  BY <1>1 DEF Sleep, Unready, IInv, TypeOK
<1>3. TypeOK'
  <2>1. state \in [Task -> State] /\ wake_count \in [Task -> Char] /\ ready \subseteq Task
    BY DEF IInv, TypeOK
  <2>2. state' \in [Task -> State]
    BY <1>2, <2>1 DEF State
  <2>3. wake_count' \in [Task -> Char] /\ ready' \subseteq Task /\ active' \in Task
    BY <1>0, <1>2, <2>1, Sources, DispatchFirst
  <2> QED BY <1>0, <2>2, <2>3 DEF IInv, TypeOK
<1>4. ReadyMask'
  BY <1>0, <1>1, <1>2, DispatchFirst DEF IInv, ReadyMask, TypeOK
<1>5. Labels'
  BY <1>0, <1>1, <1>2 DEF IInv, Labels, TypeOK
<1>6. Waking'
  BY <1>0, <1>1, <1>2, <1>3, <1>4, <1>5, DispatchFirst, WakingFrame DEF IInv, TypeOK
<1>7. Slots'
  BY <1>0, <1>1, <1>2, SlotsFrame DEF IInv, TypeOK
<1>8. Semaphores' /\ Callers' /\ Service' /\ Clients'
  BY <1>0, <1>1, <1>2, PlainFrame DEF Same, Loose, PlainLabels, LooseStates, IInv, TypeOK
<1> QED BY <1>3, <1>4, <1>5, <1>6, <1>7, <1>8 DEF IInv

LEMMA WakeTestStep == ASSUME IInv, Discipline, NEW t \in User, WakeTest(t) PROVE IInv'
<1> USE Constants
<1>0. /\ active = t /\ pc[t] = "run"
      /\ UNCHANGED <<active, ready, state, callers, pending, src, msg, overrun, intr, itask,
                     chain, ticking, sem_queue, wake_count>>
  BY DEF WakeTest, At, linkVars, waitVars
<1>1. t \in Task /\ t # System /\ t # Idle /\ state[t] = "ready" /\ t \in ready
      /\ state[System] # "ready" /\ state[Idle] = "ready"
  BY <1>0, Running
<1>2. PICK d \in User :
        /\ <<t, d>> \in Wakes
        /\ \/ state[d] = "sleeping" /\ pc' = [pc EXCEPT ![t] = "wup"] /\ loaded' = loaded
           \/ /\ state[d] = "ready" /\ pc' = [pc EXCEPT ![t] = "wupinc"]
              /\ loaded' = [loaded EXCEPT ![t] = wake_count[d]]
        /\ arg' = [arg EXCEPT ![t] = d]
  BY DEF WakeTest, Goto, Wakeable
<1>3. t < d
  BY <1>2 DEF Discipline
<1>4. TypeOK'
  <2>1. /\ pc' \in [Task -> Label] /\ arg' \in [Task -> Task \cup Sem]
        /\ wake_count[d] \in Char
    BY <1>1, <1>2 DEF IInv, TypeOK, Label
  <2>2. loaded' \in [Task -> Char]
    BY <1>1, <1>2, <2>1 DEF IInv, TypeOK
  <2> QED BY <1>0, <2>1, <2>2 DEF IInv, TypeOK
<1>5. ReadyMask'
  BY <1>0 DEF IInv, ReadyMask
<1>6. Labels'
  BY <1>0, <1>1, <1>2 DEF IInv, Labels, TypeOK
<1>7. Waking'
  <2>1. pc \in [Task -> Label] /\ arg \in [Task -> Task \cup Sem] /\ Waking
    BY DEF IInv, TypeOK
  <2>2. \A u \in User : u # t => pc'[u] = pc[u] /\ arg'[u] = arg[u]
    BY <1>2, <2>1
  <2>3. pc'[t] \in {"wup", "wupinc"} /\ arg'[t] = d /\ d # t
    BY <1>1, <1>2, <1>3, <2>1
  <2>4. state[d] \in {"sleeping", "ready"} /\ (pc'[t] = "wupinc" => state[d] = "ready")
    BY <1>1, <1>2, <2>1
  <2>5. pc[d] # "ext"
    BY <1>1, <2>4 DEF IInv, Labels, Clients
  <2>6. \A u \in User : u # t /\ pc[u] \in {"wup", "wupinc"} => active # arg[u] /\ arg[u] # t
    BY <1>0, <2>1 DEF Waking
  <2>7. \A u \in User : u # t /\ pc[u] \in {"wup", "wupinc"} => pc'[arg[u]] = pc[arg[u]]
    BY <2>1, <2>2, <2>6 DEF Waking
  <2> QED BY <1>0, <1>1, <1>2, <1>3, <2>1, <2>2, <2>3, <2>4, <2>5, <2>6, <2>7 DEF Waking
<1>8. Slots'
  BY <1>0, <1>1, <1>2, SlotsFrame DEF IInv, TypeOK
<1>9. Semaphores' /\ Callers' /\ Service' /\ Clients'
  BY <1>0, <1>1, <1>2, PlainFrame DEF Same, Loose, PlainLabels, LooseStates, IInv, TypeOK
<1> QED BY <1>4, <1>5, <1>6, <1>7, <1>8, <1>9 DEF IInv

LEMMA WakeSleeperStep == ASSUME IInv, NEW t \in User, WakeSleeper(t) PROVE IInv'
<1> USE Constants
<1> DEFINE d == arg[t]
<1>0. /\ active = t /\ pc[t] = "wup"
      /\ state' = [state EXCEPT ![d] = "ready"] /\ ready' = ready \cup {d}
      /\ pc' = [pc EXCEPT ![t] = "run"]
      /\ UNCHANGED <<callers, pending, src, msg, overrun, intr, itask, chain, ticking,
                     sem_queue, wake_count, arg, loaded>>
  BY DEF WakeSleeper, At, Goto, linkVars, waitVars
<1>1. t \in Task /\ t # System /\ t # Idle /\ state[t] = "ready" /\ t \in ready
      /\ state[System] # "ready" /\ state[Idle] = "ready"
  BY <1>0, Running
<1>2. d \in User /\ t < d /\ state[d] \in {"sleeping", "ready"}
  BY <1>0 DEF IInv, Waking
<1>3. active' = active
  <2>1. t \in Int /\ d \in Int /\ active = t
    BY <1>0, <1>1, <1>2
  <2>2. ~(d < active)
    BY <1>2, <2>1
  <2> QED BY <2>2 DEF WakeSleeper, Preempts
<1>4. pc[d] \in PlainLabels \/ state[d] = "ready"
  BY <1>2 DEF IInv, Labels, TypeOK, Label, PlainLabels
<1>5. TypeOK'
  BY <1>0, <1>1, <1>2, <1>3 DEF IInv, TypeOK, State, Label
<1>6. ReadyMask'
  BY <1>0, <1>1, <1>2, <1>3 DEF IInv, ReadyMask, TypeOK
<1>7. Labels'
  BY <1>0, <1>1, <1>2, <1>4 DEF IInv, Labels, TypeOK, PlainLabels
<1>8. Waking'
  BY <1>0, <1>1, <1>2, <1>3, <1>5, <1>6, <1>7, WakingFrame DEF IInv, TypeOK
<1>9. Slots'
  BY <1>0, <1>1, <1>2, SlotsFrame DEF IInv, TypeOK
<1>10. Semaphores' /\ Callers' /\ Service' /\ Clients'
  BY <1>0, <1>1, <1>2, <1>3, <1>4, PlainFrame
     DEF Same, Loose, PlainLabels, LooseStates, IInv, TypeOK
<1> QED BY <1>5, <1>6, <1>7, <1>8, <1>9, <1>10 DEF IInv

LEMMA WakeCountStep == ASSUME IInv, NEW t \in User, WakeCount(t) PROVE IInv'
<1> USE Constants
<1>0. /\ active = t /\ pc[t] = "wupinc" /\ pc' = [pc EXCEPT ![t] = "run"]
      /\ loaded' = [loaded EXCEPT ![t] = 0]
      /\ UNCHANGED <<active, ready, state, callers, pending, src, msg, overrun, intr, itask,
                     chain, ticking, sem_queue, arg>>
  BY DEF WakeCount, At, Goto, linkVars, waitVars
<1>1. t \in Task /\ t # System /\ t # Idle /\ state[t] = "ready" /\ t \in ready
      /\ state[System] # "ready" /\ state[Idle] = "ready"
  BY <1>0, Running
<1>2. arg[t] \in User
  BY <1>0 DEF IInv, Waking
<1>3. PICK n \in {loaded[t], wake_count[arg[t]]} :
        wake_count' = [wake_count EXCEPT ![arg[t]] = Wrap(n + 1)]
  BY DEF WakeCount
<1>4. n \in Char /\ wake_count \in [Task -> Char]
  <2>1. loaded \in [Task -> Char] /\ wake_count \in [Task -> Char]
    BY DEF IInv, TypeOK
  <2>2. loaded[t] \in Char /\ wake_count[arg[t]] \in Char
    BY <1>1, <1>2, <2>1
  <2> QED BY <2>1, <2>2
<1>5. Wrap(n + 1) \in Char
  BY <1>4, WrapInChar
<1>6. TypeOK'
  <2>1. loaded' \in [Task -> Char] /\ wake_count' \in [Task -> Char]
    BY <1>0, <1>3, <1>4, <1>5, Sources DEF IInv, TypeOK
  <2> QED BY <1>0, <2>1 DEF IInv, TypeOK, Label
<1>7. ReadyMask'
  BY <1>0 DEF IInv, ReadyMask
<1>8. Labels'
  BY <1>0, <1>1 DEF IInv, Labels, TypeOK
<1>9. Waking'
  BY <1>0, <1>1, <1>6, <1>7, <1>8, WakingFrame DEF IInv, TypeOK
<1>10. Slots'
  BY <1>0, <1>1, SlotsFrame DEF IInv, TypeOK
<1>11. Semaphores' /\ Callers' /\ Service' /\ Clients'
  BY <1>0, <1>1, PlainFrame DEF Same, Loose, PlainLabels, LooseStates, IInv, TypeOK
<1> QED BY <1>6, <1>7, <1>8, <1>9, <1>10, <1>11 DEF IInv

LEMMA InitVsyncStep == ASSUME IInv, NEW t \in User, InitVsync(t) PROVE IInv'
<1> USE Constants
<1>0. /\ active = t /\ pc[t] = "run" /\ ticking' = TRUE
      /\ UNCHANGED <<active, ready, state, callers, pending, src, msg, overrun, intr, itask,
                     chain, sem_queue, wake_count, pc, arg, loaded>>
  BY DEF InitVsync, At, linkVars, callVars
<1>1. TypeOK'
  BY <1>0 DEF IInv, TypeOK
<1>2. ReadyMask' /\ Labels'
  BY <1>0 DEF IInv, ReadyMask, Labels
<1>3. Waking'
  BY <1>0 DEF IInv, Waking
<1>4. Slots'
  BY <1>0 DEF IInv, Slots, SlotOwner, ChainIsWaiting
<1>5. Semaphores' /\ Callers' /\ Service' /\ Clients'
  BY <1>0, Running, PlainFrame DEF Same
<1> QED BY <1>1, <1>2, <1>3, <1>4, <1>5 DEF IInv

LEMMA SetVsyncTaskStep == ASSUME IInv, Discipline, NEW t \in User, SetVsyncTask(t) PROVE IInv'
<1> USE Constants
<1>0. /\ active = t /\ pc[t] = "run" /\ pc' = [pc EXCEPT ![t] = "vsync"]
      /\ \A u \in Task : pc[u] # "vsync"
      /\ UNCHANGED <<active, ready, state, callers, pending, src, msg, overrun, itask, chain,
                     ticking, sem_queue, wake_count, arg, loaded>>
  BY DEF SetVsyncTask, At, Goto, linkVars, Discipline
<1>1. t \in Task /\ t # System /\ t # Idle /\ state[t] = "ready" /\ t \in ready
      /\ state[System] # "ready" /\ state[Idle] = "ready"
  BY <1>0, Running
<1>2. PICK s \in Slot : itask[s].tasknr = System /\ intr' = [intr EXCEPT ![t] = s]
  BY DEF SetVsyncTask, FreeSlots
<1>3. s # 0 /\ s \notin chain
  BY <1>2 DEF IInv, Slots, ChainIsWaiting, Service, Slot
<1>4. TypeOK'
  BY <1>0, <1>1, <1>2 DEF IInv, TypeOK, Label
<1>5. ReadyMask'
  BY <1>0 DEF IInv, ReadyMask
<1>6. Labels'
  BY <1>0, <1>1 DEF IInv, Labels, TypeOK
<1>7. Waking'
  BY <1>0, <1>1, <1>4, <1>5, <1>6, WakingFrame DEF IInv, TypeOK
<1>8. Slots'
  BY <1>0, <1>1, <1>2, <1>3 DEF IInv, Slots, SlotOwner, ChainIsWaiting, TypeOK
<1>9. Semaphores' /\ Callers' /\ Service' /\ Clients'
  BY <1>0, <1>1, PlainFrame DEF Same, Loose, PlainLabels, LooseStates, IInv, TypeOK
<1> QED BY <1>4, <1>5, <1>6, <1>7, <1>8, <1>9 DEF IInv

LEMMA FillSlotStep == ASSUME IInv, NEW t \in User, FillSlot(t) PROVE IInv'
<1> USE Constants
<1>0. /\ active = t /\ pc[t] = "vsync" /\ pc' = [pc EXCEPT ![t] = "run"]
      /\ UNCHANGED <<active, ready, state, callers, pending, src, msg, overrun, intr, chain,
                     ticking, sem_queue, wake_count, arg, loaded>>
  BY DEF FillSlot, At, Goto, linkVars
<1>1. t \in Task /\ t # System /\ t # Idle /\ state[t] = "ready" /\ t \in ready
      /\ state[System] # "ready" /\ state[Idle] = "ready"
  BY <1>0, Running
<1>2. PICK a \in 0 .. MaxAge :
        itask' = [itask EXCEPT ![intr[t]] = [tasknr |-> t, age |-> a, due |-> 0]]
  BY DEF FillSlot
<1>3. intr[t] \in Slot /\ intr[t] \notin chain /\ itask[intr[t]].tasknr = System
  BY <1>0, <1>1 DEF IInv, TypeOK, Slots
<1>4. TypeOK'
  <2>1. [tasknr |-> t, age |-> a, due |-> 0]
          \in [tasknr : Task, age : 0 .. MaxAge, due : 0 .. MaxCount]
    BY <1>1, SizeAssumption
  <2>2. itask' \in [Slot -> [tasknr : Task, age : 0 .. MaxAge, due : 0 .. MaxCount]]
    BY <1>2, <1>3, <2>1 DEF IInv, TypeOK
  <2> QED BY <1>0, <1>1, <2>2 DEF IInv, TypeOK, Label
<1>5. ReadyMask'
  BY <1>0 DEF IInv, ReadyMask
<1>6. Labels'
  BY <1>0, <1>1 DEF IInv, Labels, TypeOK
<1>7. Waking'
  BY <1>0, <1>1, <1>4, <1>5, <1>6, WakingFrame DEF IInv, TypeOK
<1>8. Slots'
  <2>1. \A s \in Slot : itask'[s].tasknr = IF s = intr[t] THEN t ELSE itask[s].tasknr
    BY <1>2, <1>3 DEF IInv, TypeOK
  <2>2. /\ Slots /\ pc \in [Task -> Label] /\ chain \subseteq Slot
        /\ \A u \in Task : intr[u] \in Slot \cup {0}
    BY DEF IInv, TypeOK
  <2>3. \A u \in User : u # t /\ pc[u] # "vsync" /\ state[u] # "dead" /\ intr[u] # 0
                          => intr[u] # intr[t]
    BY <1>3, <2>2 DEF Slots, SlotOwner
  <2>4. \A u \in User : u # t => pc[u] # "vsync"
    BY <1>0, <2>2 DEF Slots
  <2>5. \A u \in Task : pc'[u] = IF u = t THEN "run" ELSE pc[u]
    BY <1>0, <2>2
  <2>6. SlotOwner'
    BY <1>0, <2>1, <2>2, <2>3, <2>5 DEF Slots, SlotOwner
  <2>7. ChainIsWaiting'
    BY <1>0, <1>3, <2>1, <2>2 DEF Slots, ChainIsWaiting
  <2> QED BY <1>0, <2>1, <2>2, <2>4, <2>5, <2>6, <2>7 DEF Slots
<1>9. Semaphores' /\ Callers' /\ Service' /\ Clients'
  BY <1>0, <1>1, PlainFrame DEF Same, Loose, PlainLabels, LooseStates, IInv, TypeOK
<1> QED BY <1>4, <1>5, <1>6, <1>7, <1>8, <1>9 DEF IInv

LEMMA WaitVblStep == ASSUME IInv, NEW t \in User, WaitVbl(t) PROVE IInv'
<1> USE Constants
<1>0. /\ active = t /\ pc[t] = "run" /\ intr[t] # 0 /\ pc' = [pc EXCEPT ![t] = "vbl"]
      /\ UNCHANGED <<active, ready, state, callers, pending, src, msg, overrun, intr, chain,
                     ticking, sem_queue, wake_count, arg, loaded>>
  BY DEF WaitVbl, At, Goto, linkVars
<1>1. t \in Task /\ t # System /\ t # Idle /\ state[t] = "ready" /\ t \in ready
      /\ state[System] # "ready" /\ state[Idle] = "ready"
  BY <1>0, Running
<1>2. PICK count \in 1 .. MaxCount :
        itask' = [itask EXCEPT ![intr[t]].due = IF count >= itask[intr[t]].age
                                                  THEN count - itask[intr[t]].age ELSE 1]
  BY DEF WaitVbl
<1>3. intr[t] \in Slot
  BY <1>0, <1>1 DEF IInv, TypeOK
<1>4. TypeOK'
  <2>1. itask[intr[t]].age \in 0 .. MaxAge
    BY <1>3 DEF IInv, TypeOK
  <2> DEFINE due == IF count >= itask[intr[t]].age THEN count - itask[intr[t]].age ELSE 1
             old == itask[intr[t]]
  <2>2. due \in 0 .. MaxCount
    BY <2>1, SizeAssumption DEF MaxAge
  <2>3. itask' = [itask EXCEPT ![intr[t]] = [old EXCEPT !.due = due]]
    BY <1>2
  <2>4. old \in [tasknr : Task, age : 0 .. MaxAge, due : 0 .. MaxCount]
    BY <1>3 DEF IInv, TypeOK
  <2> HIDE DEF due, old
  <2>5. [old EXCEPT !.due = due] \in [tasknr : Task, age : 0 .. MaxAge, due : 0 .. MaxCount]
    BY <2>2, <2>4
  <2>6. itask' \in [Slot -> [tasknr : Task, age : 0 .. MaxAge, due : 0 .. MaxCount]]
    BY <1>3, <2>3, <2>5 DEF IInv, TypeOK
  <2> QED BY <1>0, <1>1, <2>6 DEF IInv, TypeOK, Label
<1>5. ReadyMask'
  BY <1>0 DEF IInv, ReadyMask
<1>6. Labels'
  BY <1>0, <1>1 DEF IInv, Labels, TypeOK
<1>7. Waking'
  BY <1>0, <1>1, <1>4, <1>5, <1>6, WakingFrame DEF IInv, TypeOK
<1>8. Slots'
  BY <1>0, <1>1, <1>2, <1>3, SlotsFrame DEF IInv, TypeOK
<1>9. Semaphores' /\ Callers' /\ Service' /\ Clients'
  BY <1>0, <1>1, PlainFrame DEF Same, Loose, PlainLabels, LooseStates, IInv, TypeOK
<1> QED BY <1>4, <1>5, <1>6, <1>7, <1>8, <1>9 DEF IInv

LEMMA JoinChainStep == ASSUME IInv, NEW t \in User, JoinChain(t) PROVE IInv'
<1> USE Constants
<1>0. /\ active = t /\ pc[t] = "vbl" /\ pc' = [pc EXCEPT ![t] = "run"]
      /\ chain' = chain \cup {intr[t]} /\ state' = [state EXCEPT ![t] = "wait_vbl"]
      /\ ready' = ready \ {t} /\ Dispatch
      /\ UNCHANGED <<callers, pending, src, msg, overrun, intr, itask, ticking, sem_queue,
                     wake_count, arg, loaded>>
  BY DEF JoinChain, At, Goto, Unready, linkVars
<1>1. t \in Task /\ t # System /\ t # Idle /\ state[t] = "ready" /\ t \in ready
      /\ state[System] # "ready" /\ state[Idle] = "ready"
  BY <1>0, Running
<1>2. intr[t] \in Slot /\ itask[intr[t]].tasknr = t
  BY <1>0, <1>1 DEF IInv, TypeOK, Slots, SlotOwner
<1>3. TypeOK'
  BY <1>0, <1>1, <1>2, DispatchFirst DEF IInv, TypeOK, Label, State
<1>4. ReadyMask'
  BY <1>0, <1>1, DispatchFirst DEF IInv, ReadyMask, TypeOK
<1>5. Labels'
  BY <1>0, <1>1 DEF IInv, Labels, TypeOK
<1>6. Waking'
  BY <1>0, <1>1, <1>3, <1>4, <1>5, DispatchFirst, WakingFrame DEF IInv, TypeOK
<1>7. Slots'
  <2>1. /\ Slots /\ chain \subseteq Slot
        /\ \A u \in Task : /\ intr[u] \in Slot \cup {0}
                           /\ pc'[u] = IF u = t THEN "run" ELSE pc[u]
                           /\ state'[u] = IF u = t THEN "wait_vbl" ELSE state[u]
    BY <1>0 DEF IInv, TypeOK
  <2>2. \A s \in Slot : itask[s].tasknr \in Task
    BY DEF IInv, TypeOK
  <2>3. SlotOwner'
    BY <1>0, <1>1, <1>2, <2>1 DEF Slots, SlotOwner
  <2>6. ASSUME NEW s \in chain'
        PROVE  state'[itask[s].tasknr] = "wait_vbl" /\ intr[itask[s].tasknr] = s
    <3>1. CASE s \in chain
      <4>1. PICK u \in Task : u = itask[s].tasknr
        BY <2>1, <2>2, <3>1
      <4>2. state[u] = "wait_vbl" /\ intr[u] = s
        BY <2>1, <3>1, <4>1 DEF Slots, ChainIsWaiting
      <4>3. state'[u] = "wait_vbl"
        BY <2>1, <4>2
      <4> QED BY <4>1, <4>2, <4>3
    <3>2. CASE s = intr[t]
      BY <1>1, <1>2, <2>1, <3>2
    <3> QED BY <1>0, <3>1, <3>2
  <2>7. ASSUME NEW u \in Task, state'[u] = "wait_vbl"
        PROVE  intr[u] \in chain' /\ itask[intr[u]].tasknr = u
    <3>1. CASE u = t
      BY <1>0, <1>2, <3>1
    <3>2. CASE u # t
      <4>1. state[u] = "wait_vbl"
        BY <2>1, <2>7, <3>2
      <4> QED BY <1>0, <2>1, <4>1 DEF Slots, ChainIsWaiting
    <3> QED BY <3>1, <3>2
  <2>4. ChainIsWaiting'
    BY <1>0, <2>6, <2>7 DEF ChainIsWaiting
  <2>5. \A u \in User : pc[u] = "vsync" => intr[u] # intr[t]
    BY <1>1, <1>2, <2>1 DEF Slots
  <2> QED BY <1>0, <1>1, <2>1, <2>3, <2>4, <2>5 DEF Slots
<1>8. Semaphores' /\ Callers' /\ Service' /\ Clients'
  BY <1>0, <1>1, PlainFrame DEF Same, Loose, PlainLabels, LooseStates, IInv, TypeOK
<1> QED BY <1>3, <1>4, <1>5, <1>6, <1>7, <1>8 DEF IInv

LEMMA VSyncStep == ASSUME IInv, VSync PROVE IInv'
<1> USE Constants
<1>0. UNCHANGED <<callers, pending, src, msg, overrun, intr, ticking, sem_queue, wake_count,
                  pc, arg, loaded>>
  BY DEF VSync, linkVars, callVars
<1>1. PICK refused \in SUBSET {s \in Expired : itask[s].tasknr \in VblCallbacks} :
        LET fired == Expired \ refused
            woken == {itask[s].tasknr : s \in fired}
        IN /\ chain' = chain \ fired
           /\ itask' = [s \in Slot |->
                          [itask[s] EXCEPT
                             !.age = IF s \in fired THEN 0
                                     ELSE IF @ < MaxAge THEN @ + 1 ELSE @,
                             !.due = IF @ > 0 THEN @ - 1 ELSE 0]]
           /\ state' = [t \in Task |-> IF t \in woken THEN "ready" ELSE state[t]]
           /\ ready' = ready \cup woken
           /\ IF \E t \in woken : Preempts(t) THEN Dispatch ELSE UNCHANGED active
  BY DEF VSync
<1> DEFINE fired == Expired \ refused
           woken == {itask[s].tasknr : s \in fired}
<1>2. fired \subseteq chain /\ chain \subseteq Slot
  BY DEF Expired, IInv, TypeOK
<1>3. /\ \A s \in chain : /\ itask[s].tasknr \in User /\ state[itask[s].tasknr] = "wait_vbl"
                          /\ intr[itask[s].tasknr] = s
      /\ \A t \in woken : /\ t \in User /\ state[t] = "wait_vbl" /\ pc[t] = "run"
                          /\ intr[t] \in fired
  <2>1. ASSUME NEW s \in chain
        PROVE  /\ itask[s].tasknr \in User /\ state[itask[s].tasknr] = "wait_vbl"
               /\ intr[itask[s].tasknr] = s /\ pc[itask[s].tasknr] = "run"
    <3>1. itask[s].tasknr \in Task
      BY <1>2 DEF IInv, TypeOK
    <3>2. state[itask[s].tasknr] = "wait_vbl" /\ intr[itask[s].tasknr] = s
      BY DEF IInv, Slots, ChainIsWaiting
    <3>3. itask[s].tasknr # System /\ itask[s].tasknr # Idle
      BY <3>2 DEF IInv, Service, ReadyMask
    <3>4. pc[itask[s].tasknr] = "run"
      BY <3>1, <3>2, <3>3 DEF IInv, Labels, TypeOK, Label
    <3> QED BY <3>1, <3>2, <3>3, <3>4
  <2> QED BY <1>2, <2>1
<1>4. /\ chain' = chain \ fired /\ ready' = ready \cup woken
      /\ \A t \in Task : state'[t] = IF t \in woken THEN "ready" ELSE state[t]
      /\ state' \in [Task -> State]
      /\ Dispatch \/ (active' = active /\ ~\E t \in woken : Preempts(t))
  <2>1. state' = [t \in Task |-> IF t \in woken THEN "ready" ELSE state[t]]
    BY <1>1
  <2>2. \A t \in Task : (IF t \in woken THEN "ready" ELSE state[t]) \in State
    BY DEF IInv, TypeOK, State
  <2> HIDE DEF woken
  <2>3. /\ \A t \in Task : state'[t] = IF t \in woken THEN "ready" ELSE state[t]
        /\ state' \in [Task -> State]
    BY <2>1, <2>2
  <2> QED BY <1>1, <2>3 DEF woken
<1>5. /\ \A s \in Slot : itask'[s].tasknr = itask[s].tasknr
      /\ itask' \in [Slot -> [tasknr : Task, age : 0 .. MaxAge, due : 0 .. MaxCount]]
  <2> DEFINE e(s) == [itask[s] EXCEPT
                             !.age = IF s \in fired THEN 0
                                     ELSE IF @ < MaxAge THEN @ + 1 ELSE @,
                             !.due = IF @ > 0 THEN @ - 1 ELSE 0]
  <2>1. itask' = [s \in Slot |-> e(s)]
    BY <1>1
  <2>2. ASSUME NEW s \in Slot
        PROVE  /\ e(s) \in [tasknr : Task, age : 0 .. MaxAge, due : 0 .. MaxCount]
               /\ e(s).tasknr = itask[s].tasknr
    <3>1. itask[s] \in [tasknr : Task, age : 0 .. MaxAge, due : 0 .. MaxCount]
      BY DEF IInv, TypeOK
    <3>2. (IF s \in fired THEN 0 ELSE IF itask[s].age < MaxAge THEN itask[s].age + 1
                                      ELSE itask[s].age) \in 0 .. MaxAge
      BY <3>1, SizeAssumption DEF MaxAge
    <3>3. (IF itask[s].due > 0 THEN itask[s].due - 1 ELSE 0) \in 0 .. MaxCount
      BY <3>1, SizeAssumption
    <3> QED BY <3>1, <3>2, <3>3
  <2> HIDE DEF e
  <2> QED BY <2>1, <2>2
<1> HIDE DEF woken, fired
<1>6. TypeOK'
  BY <1>0, <1>2, <1>3, <1>4, <1>5, DispatchFirst DEF IInv, TypeOK
<1>7. ReadyMask'
  BY <1>3, <1>4, DispatchFirst DEF IInv, ReadyMask, TypeOK
<1>8. Labels'
  <2>1. \A t \in User : state'[t] = state[t] \/ (state'[t] = "ready" /\ pc[t] = "run")
    BY <1>3, <1>4
  <2> QED BY <1>0, <2>1 DEF IInv, Labels
<1>9. Waking'
  BY <1>0, <1>3, <1>4, <1>6, <1>7, <1>8, DispatchFirst, WakingFrame
<1>10. Slots'
  <2>1. Slots /\ \A t \in Task : intr[t] \in Slot \cup {0}
    BY DEF IInv, TypeOK
  <2>2. \A s \in Slot : itask[s].tasknr \in Task
    BY DEF IInv, TypeOK
  <2>3. \A s \in chain' : s \in Slot /\ s \in chain /\ itask[s].tasknr \notin woken
    BY <1>2, <1>3, <1>4
  <2>6. ASSUME NEW s \in chain'
        PROVE  state'[itask'[s].tasknr] = "wait_vbl" /\ intr'[itask'[s].tasknr] = s
    <3>1. itask'[s].tasknr = itask[s].tasknr /\ itask[s].tasknr \in Task
      BY <1>5, <2>2, <2>3
    <3>2. state'[itask[s].tasknr] = state[itask[s].tasknr]
      BY <1>4, <2>3, <3>1
    <3> QED BY <1>0, <1>3, <2>3, <3>1, <3>2
  <2>7. ASSUME NEW t \in Task, state'[t] = "wait_vbl"
        PROVE  intr'[t] \in chain' /\ itask'[intr'[t]].tasknr = t
    <3>1. t \notin woken /\ intr[t] \in chain /\ itask[intr[t]].tasknr = t
      BY <1>4, <2>1, <2>7 DEF Slots, ChainIsWaiting
    <3>2. intr[t] \notin fired
      BY <3>1 DEF woken
    <3> QED BY <1>0, <1>2, <1>4, <1>5, <3>1, <3>2
  <2>4. ChainIsWaiting'
    BY <2>6, <2>7 DEF ChainIsWaiting
  <2>5. SlotOwner'
    BY <1>0, <1>3, <1>4, <1>5, <2>1 DEF Slots, SlotOwner
  <2> QED BY <1>0, <1>4, <1>5, <2>1, <2>4, <2>5 DEF Slots
<1>11. state[System] = "ready" => active' = System
  <2> SUFFICES ASSUME state[System] = "ready" PROVE active' = System
    OBVIOUS
  <2>1. active = System /\ System \in ready' /\ active' \in Task
    BY <1>4, <1>6 DEF IInv, Service, ReadyMask, TypeOK
  <2>2. CASE Dispatch
    BY <2>1, <2>2, DispatchFirst DEF IsFirstReady
  <2> QED BY <1>4, <2>1, <2>2
<1>12. Semaphores' /\ Callers' /\ Service' /\ Clients'
  BY <1>0, <1>3, <1>4, <1>11, PlainFrame DEF Same, Loose, PlainLabels, LooseStates
<1> QED BY <1>6, <1>7, <1>8, <1>9, <1>10, <1>12 DEF IInv

\* A task that waits for an interrupt is made READY.
LEMMA WakeReceiver ==
  ASSUME IInv, NEW d \in User, state[d] = "receiving",
         state' = [state EXCEPT ![d] = "ready"], ready' = ready \cup {d},
         Dispatch \/ active' = active,
         src' \in [Task -> Source], \A u \in Task : u = d \/ src'[u] = src[u],
         overrun' = overrun,
         UNCHANGED <<callers, pending, msg, intr, itask, chain, ticking, sem_queue,
                     wake_count, pc, arg, loaded>>
  PROVE  IInv'
<1> USE Constants
<1>1. pc[d] = "run"
  BY DEF IInv, Labels, TypeOK, Label
<1>2. /\ active' \in ready' /\ \A u \in Task : state'[u] = IF u = d THEN "ready" ELSE state[u]
      /\ active' = active \/ IsFirstReady(active', ready')
  BY DispatchFirst DEF IInv, TypeOK, ReadyMask
<1>3. TypeOK'
  <2>1. state' \in [Task -> State] /\ ready' \subseteq Task
    BY DEF IInv, TypeOK, State
  <2> QED BY <1>2, <2>1 DEF IInv, TypeOK
<1>4. ReadyMask'
  BY <1>2 DEF IInv, ReadyMask
<1>5. Labels'
  BY <1>1, <1>2 DEF IInv, Labels
<1>6. Waking'
  BY <1>2, <1>3, <1>4, <1>5, WakingFrame
<1>7. Slots'
  BY <1>2, SlotsFrame
<1>8. state[System] = "ready" => active' = System
  <2>1. state[System] = "ready" => active = System /\ System \in ready'
    BY DEF IInv, Service, ReadyMask
  <2>2. active' \in Task
    BY <1>3 DEF TypeOK
  <2>3. CASE IsFirstReady(active', ready')
    BY <2>1, <2>2, <2>3 DEF IsFirstReady
  <2> QED BY <1>2, <2>1, <2>3
<1>9. Semaphores' /\ Callers' /\ Service' /\ Clients'
  BY <1>1, <1>2, <1>8, PlainFrame DEF Same, Loose, PlainLabels, LooseStates
<1> QED BY <1>3, <1>4, <1>5, <1>6, <1>7, <1>9 DEF IInv

\* The processor stays where it is, and only overrun changes.
LEMMA CountStep ==
  ASSUME IInv, overrun' \in [Task -> Char],
         UNCHANGED <<active, ready, state, callers, pending, src, msg, intr, itask, chain,
                     ticking, sem_queue, wake_count, pc, arg, loaded>>
  PROVE  IInv'
<1>1. TypeOK' /\ ReadyMask' /\ Labels'
  BY DEF IInv, TypeOK, ReadyMask, Labels
<1>2. Waking'
  BY DEF IInv, Waking
<1>3. Slots'
  BY DEF IInv, Slots, SlotOwner, ChainIsWaiting
<1>4. Semaphores' /\ Callers' /\ Service' /\ Clients'
  BY PlainFrame DEF Same, IInv, Service
<1> QED BY <1>1, <1>2, <1>3, <1>4 DEF IInv

\* A call that changes nothing but the choice of the active task.
LEMMA StayStep ==
  ASSUME IInv, NEW t \in User, active = t, Dispatch,
         UNCHANGED <<ready, state, callers, pending, src, msg, overrun, intr, itask, chain,
                     ticking, sem_queue, wake_count, pc, arg, loaded>>
  PROVE  IInv'
<1> USE Constants
<1>1. active' \in ready' /\ IsFirstReady(active', ready') /\ state[System] # "ready"
  BY DispatchFirst, Running
<1>2. TypeOK'
  BY <1>1 DEF IInv, TypeOK
<1>3. ReadyMask' /\ Labels'
  BY <1>1 DEF IInv, ReadyMask, Labels
<1>4. Waking'
  BY <1>1, <1>2, <1>3, WakingFrame
<1>5. Slots'
  BY DEF IInv, Slots, SlotOwner, ChainIsWaiting
<1>6. Semaphores' /\ Callers' /\ Service' /\ Clients'
  BY <1>1, PlainFrame DEF Same
<1> QED BY <1>2, <1>3, <1>4, <1>5, <1>6 DEF IInv

LEMMA ISendStep == ASSUME IInv, NEW d \in User, ISend(d) PROVE IInv'
<1> USE Constants
<1>1. UNCHANGED <<callers, pending, src, msg, intr, itask, chain, ticking, sem_queue,
                  wake_count, pc, arg, loaded>>
  BY DEF ISend, waitVars, callVars
<1>2. overrun \in [Task -> Char] /\ src \in [Task -> Source]
  BY DEF IInv, TypeOK
<1>3. CASE UNCHANGED <<active, ready, state>> /\ overrun' = [overrun EXCEPT ![d] = Wrap(@ + 1)]
  <2>1. overrun[d] \in Char
    BY <1>2
  <2>2. Wrap(overrun[d] + 1) \in Char
    BY <2>1, WrapInChar
  <2>3. overrun' \in [Task -> Char]
    BY <1>2, <1>3, <2>2
  <2> QED BY <1>1, <1>3, <2>3, CountStep
<1>4. CASE /\ state[d] = "receiving" /\ overrun' = overrun
           /\ state' = [state EXCEPT ![d] = "ready"] /\ ready' = ready \cup {d}
           /\ IF Preempts(d) THEN Dispatch ELSE UNCHANGED active
  BY <1>1, <1>2, <1>4, WakeReceiver
<1> QED BY <1>3, <1>4 DEF ISend

LEMMA ResetInterruptWaitStep ==
  ASSUME IInv, NEW t \in User, ResetInterruptWait(t) PROVE IInv'
<1> USE Constants
<1>1. UNCHANGED <<callers, pending, msg, overrun, intr, itask, chain, ticking, sem_queue,
                  wake_count, pc, arg, loaded>>
  BY DEF ResetInterruptWait, waitVars, callVars
<1>2. Dispatch /\ active = t
  BY DEF ResetInterruptWait, At
<1>3. src \in [Task -> Source] /\ overrun \in [Task -> Char]
  BY DEF IInv, TypeOK
<1>4. CASE src' = src /\ state' = state /\ ready' = ready
  BY <1>1, <1>2, <1>3, <1>4, StayStep
<1>5. ASSUME NEW d \in User, state[d] = "receiving", src' = [src EXCEPT ![d] = INTR_RESETED],
             state' = [state EXCEPT ![d] = "ready"], ready' = ready \cup {d}
      PROVE  IInv'
  <2>1. src' \in [Task -> Source] /\ \A u \in Task : u = d \/ src'[u] = src[u]
    BY <1>3, <1>5, Sources
  <2> QED BY <1>1, <1>2, <1>5, <2>1, WakeReceiver
<1> QED BY <1>4, <1>5 DEF ResetInterruptWait

LEMMA StartReturnsStep == ASSUME IInv, NEW t \in User, StartReturns(t) PROVE IInv'
<1> USE Constants
<1>0. /\ active = t /\ pc[t] = "started" /\ pc' = [pc EXCEPT ![t] = "run"]
      /\ UNCHANGED <<active, ready, state, callers, pending, src, msg, overrun, intr, itask,
                     chain, ticking, sem_queue, wake_count, arg, loaded>>
  BY DEF StartReturns, At, Goto, linkVars, waitVars
<1>1. t \in Task /\ t # System /\ t # Idle /\ state[t] = "ready" /\ t \in ready
      /\ state[System] # "ready" /\ state[Idle] = "ready"
  BY <1>0, Running
<1>2. TypeOK'
  BY <1>0 DEF IInv, TypeOK, Label
<1>3. ReadyMask' /\ Labels'
  BY <1>0, <1>1 DEF IInv, ReadyMask, Labels, TypeOK
<1>4. Waking'
  BY <1>0, <1>1, <1>2, <1>3, WakingFrame DEF IInv, TypeOK
<1>5. Slots'
  BY <1>0, <1>1, SlotsFrame DEF IInv, TypeOK
<1>6. Semaphores' /\ Callers' /\ Service' /\ Clients'
  BY <1>0, <1>1, PlainFrame DEF Same, Loose, PlainLabels, LooseStates, IInv, TypeOK
<1> QED BY <1>2, <1>3, <1>4, <1>5, <1>6 DEF IInv

-----------------------------------------------------------------------------
(* Messages. *)

\* A task that blocks in mts_send joins the callers of its receiver.
LEMMA JoinCallers ==
  ASSUME TypeOK, CallersAreSending, NEW t \in Task, NEW d \in Task, state[t] # "sending",
         state' = [state EXCEPT ![t] = "sending"], pending' = [pending EXCEPT ![t] = d],
         callers' = [callers EXCEPT ![d] = Append(@, t)]
  PROVE  callers' \in [Task -> Seq(Task)] /\ CallersAreSending'
<1>1. /\ callers \in [Task -> Seq(Task)]
      /\ \A u \in Task : /\ state'[u] = IF u = t THEN "sending" ELSE state[u]
                         /\ pending'[u] = IF u = t THEN d ELSE pending[u]
                         /\ callers'[u] = IF u = d THEN Append(callers[d], t) ELSE callers[u]
  BY DEF TypeOK
<1>2. callers[d] \in Seq(Task) /\ IsInjective(callers[d]) /\ ~Contains(callers[d], t)
  BY <1>1 DEF CallersAreSending
<1>3. /\ Append(callers[d], t) \in Seq(Task) /\ IsInjective(Append(callers[d], t))
      /\ \A x : Contains(Append(callers[d], t), x) <=> Contains(callers[d], x) \/ x = t
  BY <1>2, AppendQueue
<1>4. callers' \in [Task -> Seq(Task)]
  BY <1>1, <1>3
<1>5. ASSUME NEW e \in Task
      PROVE  /\ IsInjective(callers'[e])
             /\ \A u \in Task : Contains(callers'[e], u) <=> state'[u] = "sending" /\ pending'[u] = e
  <2>1. /\ IsInjective(callers[e])
        /\ \A u \in Task : Contains(callers[e], u) <=> state[u] = "sending" /\ pending[u] = e
    BY DEF CallersAreSending
  <2>2. CASE e = d
    BY <1>1, <1>3, <2>1, <2>2
  <2>3. CASE e # d
    BY <1>1, <2>1, <2>3
  <2> QED BY <2>2, <2>3
<1> QED BY <1>4, <1>5 DEF CallersAreSending

\* A sender that mts_receive takes leaves them.
LEMMA LeaveCallers ==
  ASSUME TypeOK, CallersAreSending, NEW t \in Task, NEW i \in DOMAIN callers[t], NEW s,
         state[t] # "sending", state' = [state EXCEPT ![callers[t][i]] = "ready"],
         pending' = [pending EXCEPT ![t] = s], callers' = [callers EXCEPT ![t] = RemoveAt(@, i)]
  PROVE  /\ callers' \in [Task -> Seq(Task)] /\ CallersAreSending'
         /\ callers[t][i] \in Task /\ state[callers[t][i]] = "sending"
         /\ pending[callers[t][i]] = t
<1> DEFINE c == callers[t][i]
           r == RemoveAt(callers[t], i)
<1>1. callers[t] \in Seq(Task) /\ IsInjective(callers[t])
  BY DEF TypeOK, CallersAreSending
<1>2. c \in Task /\ Contains(callers[t], c)
  BY <1>1, LenProperties, ElementOfSeq DEF Contains
<1>3. state[c] = "sending" /\ pending[c] = t
  BY <1>2 DEF CallersAreSending
<1>4. /\ r \in Seq(Task) /\ IsInjective(r)
      /\ \A x : Contains(r, x) <=> Contains(callers[t], x) /\ x # c
  BY <1>1, RemoveAtQueue
<1>5. /\ callers \in [Task -> Seq(Task)]
      /\ \A u \in Task : /\ state'[u] = IF u = c THEN "ready" ELSE state[u]
                         /\ u # t => pending'[u] = pending[u]
                         /\ callers'[u] = IF u = t THEN r ELSE callers[u]
  BY <1>2 DEF TypeOK
<1> HIDE DEF c, r
<1>6. callers' \in [Task -> Seq(Task)]
  <2>1. callers' = [callers EXCEPT ![t] = r]
    BY DEF r
  <2> QED BY <1>4, <1>5, <2>1
<1>7. ASSUME NEW e \in Task
      PROVE  /\ IsInjective(callers'[e])
             /\ \A u \in Task : Contains(callers'[e], u) <=> state'[u] = "sending" /\ pending'[u] = e
  <2>1. /\ IsInjective(callers[e])
        /\ \A u \in Task : Contains(callers[e], u) <=> state[u] = "sending" /\ pending[u] = e
    BY DEF CallersAreSending
  <2>2. CASE e = t
    BY <1>3, <1>4, <1>5, <2>1, <2>2
  <2>3. CASE e # t
    <3>1. callers'[e] = callers[e]
      BY <1>5, <2>3
    <3>2. ASSUME NEW u \in Task
          PROVE  Contains(callers[e], u) <=> state'[u] = "sending" /\ pending'[u] = e
      <4>1. Contains(callers[e], u) <=> state[u] = "sending" /\ pending[u] = e
        BY <2>1
      <4>2. CASE u = t
        BY <1>3, <1>5, <4>1, <4>2
      <4>3. CASE u = c
        BY <1>3, <1>5, <2>3, <4>1, <4>3
      <4> QED BY <1>5, <4>1, <4>2, <4>3
    <3> QED BY <2>1, <3>1, <3>2
  <2> QED BY <2>2, <2>3
<1>8. CallersAreSending'
  BY <1>7 DEF CallersAreSending
<1> QED BY <1>2, <1>3, <1>6, <1>8 DEF c

LEMMA MessageTypes ==
  /\ \A t \in Task, c \in {"start", "exit", "ok", "fail", "data"} : [code |-> c, tasknr |-> t] \in Message
  /\ \A m \in Message : m.tasknr \in Task
BY DEF Message

LEMMA UserSendStep == ASSUME IInv, NEW t \in User, UserSend(t) PROVE IInv'
<1> USE Constants
<1>1. PICK d \in User : /\ <<t, d>> \in Sends /\ state[d] # "dead"
                        /\ Send(t, d, [code |-> "data", tasknr |-> t])
  BY DEF UserSend
<1> DEFINE m == [code |-> "data", tasknr |-> t]
<1>2. /\ active = t /\ pc[t] = "run" /\ Dispatch
      /\ UNCHANGED <<overrun, intr, itask, chain, ticking, sem_queue, wake_count, pc, arg, loaded>>
      /\ SendDirect(t, d, m) \/ SendQueued(t, d, m)
  BY <1>1 DEF UserSend, Send, At, waitVars, callVars
<1>3. /\ t \in Task /\ d \in Task /\ t # System /\ t # Idle /\ state[t] = "ready" /\ t \in ready
      /\ state[System] # "ready" /\ state[Idle] = "ready"
      /\ active' \in ready' /\ IsFirstReady(active', ready')
  BY <1>2, Running, DispatchFirst
<1>4. m \in Message
  BY <1>3, MessageTypes
<1>5. /\ TypeOK /\ Callers /\ Labels /\ Service /\ Clients /\ ReadyMask
      /\ pc \in [Task -> Label] /\ state \in [Task -> State] /\ src \in [Task -> Source]
      /\ msg \in [Task -> Message] /\ pending \in [Task -> Source]
  BY DEF IInv, TypeOK
<1> HIDE DEF m
<1>6. CASE SendDirect(t, d, m)
  <2>1. /\ state[d] = "receiving" /\ src' = [src EXCEPT ![d] = t]
        /\ msg' = [msg EXCEPT ![t] = m, ![d] = m]
        /\ state' = [state EXCEPT ![d] = "ready"] /\ ready' = ready \cup {d}
        /\ callers' = callers /\ pending' = pending
    BY <1>6 DEF SendDirect
  <2>2. pc[d] = "run" /\ d # t
    BY <1>3, <1>5, <2>1 DEF Labels, Label
  <2>3. \A u \in Task : /\ state'[u] = IF u = d THEN "ready" ELSE state[u]
                        /\ u # d => src'[u] = src[u]
                        /\ u # d /\ u # t => msg'[u] = msg[u]
    BY <1>3, <1>5, <2>1
  <2>4. src' \in [Task -> Source] /\ msg' \in [Task -> Message] /\ state' \in [Task -> State]
    BY <1>3, <1>4, <1>5, <2>1, Sources DEF State
  <2>5. TypeOK'
    BY <1>2, <1>3, <1>5, <2>1, <2>4 DEF TypeOK
  <2>6. ReadyMask' /\ Labels'
    BY <1>2, <1>3, <1>5, <2>1, <2>2, <2>3 DEF ReadyMask, Labels
  <2>7. Waking'
    BY <1>2, <1>3, <2>3, <2>5, <2>6, WakingFrame
  <2>8. Slots'
    BY <1>2, <1>3, <2>1, <2>3, SlotsFrame
  <2>9. Semaphores' /\ Callers' /\ Service' /\ Clients'
    BY <1>2, <1>3, <2>1, <2>2, <2>3, PlainFrame DEF Same, Loose, PlainLabels, LooseStates
  <2> QED BY <2>5, <2>6, <2>7, <2>8, <2>9 DEF IInv
<1>7. CASE SendQueued(t, d, m)
  <2>1. /\ state' = [state EXCEPT ![t] = "sending"] /\ ready' = ready \ {t}
        /\ msg' = [msg EXCEPT ![t] = m] /\ pending' = [pending EXCEPT ![t] = d]
        /\ callers' = [callers EXCEPT ![d] = Append(@, t)] /\ src' = src
    BY <1>7 DEF SendQueued, Unready
  <2>2. \A u \in Task : /\ state'[u] = IF u = t THEN "sending" ELSE state[u]
                        /\ pending'[u] = IF u = t THEN d ELSE pending[u]
                        /\ u # t => msg'[u] = msg[u]
                        /\ u # d => callers'[u] = callers[u]
    BY <1>3, <1>5, <2>1 DEF TypeOK
  <2>3. callers' \in [Task -> Seq(Task)] /\ CallersAreSending'
    BY <1>3, <1>5, <2>1, JoinCallers DEF Callers
  <2>4. /\ msg' \in [Task -> Message] /\ state' \in [Task -> State]
        /\ pending' \in [Task -> Source]
    BY <1>3, <1>4, <1>5, <2>1, Sources DEF State
  <2>5. TypeOK'
    BY <1>2, <1>3, <1>5, <2>1, <2>3, <2>4 DEF TypeOK
  <2>6. ReadyMask' /\ Labels'
    BY <1>2, <1>3, <1>5, <2>1, <2>2 DEF ReadyMask, Labels
  <2>7. Waking'
    BY <1>2, <1>3, <2>2, <2>5, <2>6, WakingFrame
  <2>8. Slots'
    BY <1>2, <1>3, <2>1, <2>2, SlotsFrame
  <2>9. Semaphores'
    BY <1>2, <1>3, <2>2, SemaphoresFrame
  <2>10. Callers'
    BY <1>1, <1>2, <1>3, <1>5, <2>2, <2>3 DEF Callers
  <2>11. Service'
    BY <1>2, <1>3, <1>5, <2>1, <2>2 DEF Service, Asks, Answers
  <2>12. Clients'
    BY <1>2, <1>3, <1>5, <2>1, <2>2 DEF Clients, Asks
  <2> QED BY <2>5, <2>6, <2>7, <2>8, <2>9, <2>10, <2>11, <2>12 DEF IInv
<1> QED BY <1>2, <1>6, <1>7

\* A task that leaves mts_receive with nothing changed but its own buffer, or that
\* blocks in it.
LEMMA ReceiveAlone ==
  ASSUME IInv, NEW t \in User, active = t, pc[t] = "run", Dispatch,
         \/ state' = state /\ ready' = ready
         \/ state' = [state EXCEPT ![t] = "receiving"] /\ ready' = ready \ {t},
         src' \in [Task -> Source], pending' \in [Task -> Source], overrun' \in [Task -> Char],
         \A u \in Task : u # t => src'[u] = src[u] /\ pending'[u] = pending[u],
         UNCHANGED <<callers, msg, intr, itask, chain, ticking, sem_queue, wake_count,
                     pc, arg, loaded>>
  PROVE  IInv'
<1> USE Constants
<1>1. /\ t \in Task /\ t # System /\ t # Idle /\ state[t] = "ready" /\ t \in ready
      /\ state[System] # "ready" /\ state[Idle] = "ready"
      /\ active' \in ready' /\ IsFirstReady(active', ready')
  BY Running, DispatchFirst
<1>2. state \in [Task -> State] /\ ready \subseteq Task
  BY DEF IInv, TypeOK
<1>3. /\ \A u \in Task : u # t => state'[u] = state[u]
      /\ \/ state'[t] = "ready" /\ ready' = ready
         \/ state'[t] = "receiving" /\ ready' = ready \ {t}
  BY <1>1, <1>2
<1>4. state' \in [Task -> State] /\ ready' \subseteq Task
  BY <1>1, <1>2 DEF State
<1>5. TypeOK'
  BY <1>1, <1>4 DEF IInv, TypeOK
<1>6. ReadyMask'
  BY <1>1, <1>3 DEF IInv, ReadyMask
<1>7. Labels'
  BY <1>1, <1>3 DEF IInv, Labels
<1>8. Waking'
  BY <1>1, <1>3, <1>5, <1>6, <1>7, WakingFrame
<1>9. Slots'
  BY <1>1, <1>3, SlotsFrame
<1>10. Semaphores' /\ Callers' /\ Service' /\ Clients'
  BY <1>1, <1>3, PlainFrame DEF Same, Loose, PlainLabels, LooseStates
<1> QED BY <1>5, <1>6, <1>7, <1>8, <1>9, <1>10 DEF IInv

LEMMA UserReceiveStep == ASSUME IInv, NEW t \in User, UserReceive(t) PROVE IInv'
<1> USE Constants
<1>1. PICK s \in User \cup {ANY, INTR, INTR2} : Receive(t, s)
  BY DEF UserReceive
<1>2. /\ active = t /\ pc[t] = "run" /\ Dispatch /\ pending' = [pending EXCEPT ![t] = s]
      /\ UNCHANGED <<intr, itask, chain, ticking, sem_queue, wake_count, pc, arg, loaded>>
  BY <1>1 DEF UserReceive, Receive, At, waitVars, callVars
<1>3. /\ t \in Task /\ t # System /\ t # Idle /\ state[t] = "ready" /\ t \in ready
      /\ state[System] # "ready" /\ state[Idle] = "ready" /\ s \in Source
      /\ active' \in ready' /\ IsFirstReady(active', ready')
  BY <1>2, Running, DispatchFirst, Sources
<1>4. /\ TypeOK /\ Callers /\ Labels /\ Service /\ Clients /\ ReadyMask
      /\ pc \in [Task -> Label] /\ state \in [Task -> State] /\ src \in [Task -> Source]
      /\ msg \in [Task -> Message] /\ pending \in [Task -> Source]
      /\ overrun \in [Task -> Char]
  BY DEF IInv, TypeOK
<1>5. /\ pending' \in [Task -> Source] /\ \A u \in Task : u # t => pending'[u] = pending[u]
  BY <1>2, <1>3, <1>4
<1>6. CASE ReceiveBlock(t, s)
  <2>1. /\ src' = [src EXCEPT ![t] = s] /\ state' = [state EXCEPT ![t] = "receiving"]
        /\ ready' = ready \ {t} /\ UNCHANGED <<msg, callers>>
        /\ overrun' = [overrun EXCEPT ![t] = IF s = INTR THEN 0 ELSE @]
    BY <1>6 DEF ReceiveBlock, Unready
  <2>2. /\ src' \in [Task -> Source] /\ overrun' \in [Task -> Char]
        /\ \A u \in Task : u # t => src'[u] = src[u]
    BY <1>3, <1>4, <2>1, Sources
  <2> QED BY <1>2, <1>5, <2>1, <2>2, ReceiveAlone
<1>7. CASE ReceiveOverrun(t)
  <2>1. /\ src' = [src EXCEPT ![t] = overrun[t]] /\ overrun' = [overrun EXCEPT ![t] = 0]
        /\ UNCHANGED <<msg, callers, state, ready>>
    BY <1>7 DEF ReceiveOverrun
  <2>2. overrun[t] \in Source
    BY <1>3, <1>4, Sources
  <2>3. /\ src' \in [Task -> Source] /\ overrun' \in [Task -> Char]
        /\ \A u \in Task : u # t => src'[u] = src[u]
    BY <1>3, <1>4, <2>1, <2>2, Sources
  <2> QED BY <1>2, <1>5, <2>1, <2>3, ReceiveAlone
<1>8. ASSUME NEW i \in DOMAIN callers[t], ReceiveQueued(t, i) PROVE IInv'
  <2> DEFINE c == callers[t][i]
  <2>1. /\ msg' = [msg EXCEPT ![t] = msg[c]] /\ src' = [src EXCEPT ![t] = c]
        /\ state' = [state EXCEPT ![c] = "ready"] /\ ready' = ready \cup {c}
        /\ callers' = [callers EXCEPT ![t] = RemoveAt(@, i)] /\ overrun' = overrun
    BY <1>8 DEF ReceiveQueued
  <2>2. /\ callers' \in [Task -> Seq(Task)] /\ CallersAreSending'
        /\ c \in Task /\ state[c] = "sending" /\ pending[c] = t
    BY <1>2, <1>3, <1>4, <2>1, LeaveCallers DEF Callers
  <2> HIDE DEF c
  <2>3. c # System /\ c # Idle
    BY <1>2, <1>3, <1>4, <2>2 DEF Service, Answers
  <2>4. c \in User /\ pc[c] = "run" /\ c # t
    BY <1>3, <1>4, <2>2, <2>3 DEF Callers
  <2>5. \A u \in Task : /\ state'[u] = IF u = c THEN "ready" ELSE state[u]
                        /\ u # t => src'[u] = src[u] /\ msg'[u] = msg[u]
                                    /\ callers'[u] = callers[u]
    BY <1>3, <1>4, <2>1, <2>2 DEF TypeOK
  <2>6. /\ msg' \in [Task -> Message] /\ state' \in [Task -> State]
        /\ src' \in [Task -> Source]
    BY <1>3, <1>4, <2>1, <2>2, Sources DEF State
  <2>7. TypeOK'
    BY <1>2, <1>3, <1>4, <1>5, <2>1, <2>2, <2>6 DEF TypeOK
  <2>8. ReadyMask' /\ Labels'
    BY <1>2, <1>3, <1>4, <2>1, <2>4, <2>5 DEF ReadyMask, Labels
  <2>9. Waking'
    BY <1>2, <1>3, <2>4, <2>5, <2>7, <2>8, WakingFrame
  <2>10. Slots'
    BY <1>2, <1>3, <2>2, <2>5, SlotsFrame
  <2>11. Semaphores'
    BY <1>2, <1>3, <2>2, <2>5, SemaphoresFrame
  <2>12. Callers'
    <3>1. \A u \in Task :
            /\ state'[u] = "sending" => state[u] = "sending" /\ pending'[u] = pending[u]
            /\ state'[u] = "dead" => state[u] = "dead" /\ callers'[u] = callers[u]
      BY <1>3, <1>5, <2>5
    <3> QED BY <1>2, <1>3, <1>4, <2>2, <3>1 DEF Callers
  <2>13. Service'
    <3>1. /\ state'[System] = state[System] /\ src'[System] = src[System]
          /\ msg'[System] = msg[System] /\ pending'[System] = pending[System]
          /\ \A u \in User : state[u] = "ready" => state'[u] = "ready"
      BY <1>3, <1>5, <2>3, <2>5
    <3> QED BY <1>2, <1>3, <1>4, <3>1 DEF Service, Answers
  <2>14. Clients'
    BY <1>2, <1>3, <1>4, <1>5, <2>3, <2>4, <2>5 DEF Clients, Asks
  <2> QED BY <2>7, <2>8, <2>9, <2>10, <2>11, <2>12, <2>13, <2>14 DEF IInv
<1> QED BY <1>1, <1>6, <1>7, <1>8 DEF Receive, Acceptable

-----------------------------------------------------------------------------
(* Semaphores. *)

LEMMA LockSemStep == ASSUME IInv, NEW t \in User, LockSem(t) PROVE IInv'
<1> USE Constants
<1>1. /\ active = t /\ pc[t] = "run" /\ pc' = [pc EXCEPT ![t] = "sem"]
      /\ UNCHANGED <<callers, pending, src, msg, overrun, intr, itask, chain, ticking,
                     wake_count, loaded>>
  BY DEF LockSem, At, Goto, linkVars, waitVars
<1>2. PICK n \in Sem :
        /\ sem_queue' = [sem_queue EXCEPT ![n] = Append(@, t)]
        /\ arg' = [arg EXCEPT ![t] = n]
        /\ \/ sem_queue[n] = <<>> /\ active' = active /\ ready' = ready /\ state' = state
           \/ /\ sem_queue[n] # <<>> /\ state' = [state EXCEPT ![t] = "pending"]
              /\ ready' = ready \ {t} /\ active' = Head(sem_queue[n])
  BY DEF LockSem, SemFree, Unready
<1>3. /\ t \in Task /\ t # System /\ t # Idle /\ state[t] = "ready" /\ t \in ready
      /\ state[System] # "ready" /\ state[Idle] = "ready"
  BY <1>1, Running
<1>4. /\ TypeOK /\ Callers /\ Labels /\ Service /\ Clients /\ ReadyMask /\ Semaphores
      /\ pc \in [Task -> Label] /\ state \in [Task -> State]
      /\ arg \in [Task -> Task \cup Sem] /\ sem_queue \in [Sem -> Seq(Task)]
  BY DEF IInv, TypeOK
<1> DEFINE q == sem_queue[n]
           h == Head(q)
<1>5. /\ q \in Seq(Task) /\ IsInjective(q) /\ ~Contains(q, t)
      /\ \A u \in Task : Contains(q, u) <=> pc[u] = "sem" /\ arg[u] = n
      /\ \A i \in DOMAIN q : state[q[i]] = "pending" <=> i > 1
  BY <1>1, <1>3, <1>4 DEF Semaphores, SemWaiters
<1>6. /\ Append(q, t) \in Seq(Task) /\ IsInjective(Append(q, t))
      /\ \A x : Contains(Append(q, t), x) <=> Contains(q, x) \/ x = t
      /\ Len(Append(q, t)) = Len(q) + 1 /\ Len(q) \in Nat
      /\ \A i \in 1 .. Len(q) : Append(q, t)[i] = q[i]
      /\ Append(q, t)[Len(q) + 1] = t
      /\ DOMAIN q = 1 .. Len(q) /\ DOMAIN Append(q, t) = 1 .. Len(q) + 1
  BY <1>3, <1>5, AppendQueue, AppendProperties, LenProperties
<1>7. q # <<>> => /\ h = q[1] /\ Len(q) > 0 /\ h \in User /\ pc[h] = "sem" /\ arg[h] = n
                  /\ state[h] = "ready" /\ h # t
  <2> SUFFICES ASSUME q # <<>>
               PROVE  /\ h = q[1] /\ Len(q) > 0 /\ h \in User /\ pc[h] = "sem" /\ arg[h] = n
                      /\ state[h] = "ready" /\ h # t
    OBVIOUS
  <2>1. h = q[1] /\ Len(q) > 0
    BY <1>5, TailQueue
  <2>2. h \in Task /\ Contains(q, h) /\ state[h] # "pending"
    BY <1>5, <1>6, <2>1, ElementOfSeq DEF Contains
  <2>3. pc[h] = "sem" /\ arg[h] = n
    BY <1>5, <2>2
  <2> QED BY <1>1, <1>4, <2>1, <2>2, <2>3 DEF Labels
<1>8. /\ \A u \in Task : u # t => state'[u] = state[u] /\ pc'[u] = pc[u] /\ arg'[u] = arg[u]
      /\ pc'[t] = "sem" /\ arg'[t] = n
      /\ sem_queue'[n] = Append(q, t) /\ \A k \in Sem : k # n => sem_queue'[k] = sem_queue[k]
      /\ \/ q = <<>> /\ state'[t] = "ready" /\ ready' = ready /\ active' = t
         \/ q # <<>> /\ state'[t] = "pending" /\ ready' = ready \ {t} /\ active' = h
  BY <1>1, <1>2, <1>3, <1>4
<1>9. TypeOK'
  <2>1. /\ sem_queue' \in [Sem -> Seq(Task)] /\ arg' \in [Task -> Task \cup Sem]
    BY <1>2, <1>3, <1>4, <1>6
  <2>2. state' \in [Task -> State] /\ pc' \in [Task -> Label]
    BY <1>1, <1>2, <1>3, <1>4 DEF State, Label
  <2>3. active' \in Task /\ ready' \subseteq Task
    BY <1>3, <1>4, <1>7, <1>8 DEF TypeOK
  <2> QED BY <1>1, <2>1, <2>2, <2>3, <1>4 DEF TypeOK
<1> HIDE DEF q, h
<1>10. ReadyMask'
  BY <1>3, <1>4, <1>7, <1>8 DEF ReadyMask
<1>11. Labels'
  BY <1>3, <1>4, <1>8 DEF Labels
<1>12. Waking'
  <2> SUFFICES ASSUME NEW u \in User, pc'[u] \in {"wup", "wupinc"}
               PROVE  LET d == arg'[u] IN
                      /\ d \in User /\ u < d
                      /\ state'[d] \in {"sleeping", "ready"}
                      /\ pc'[u] = "wupinc" => state'[d] = "ready"
                      /\ pc'[d] # "ext"
                      /\ active' = d => pc'[d] = "sem" /\ Len(sem_queue'[arg'[d]]) > 1
    BY DEF Waking
  <2>1. u # t /\ pc'[u] = pc[u] /\ arg'[u] = arg[u]
    BY <1>8
  <2> DEFINE d == arg[u]
  <2>2. /\ d \in User /\ u < d /\ state[d] \in {"sleeping", "ready"}
        /\ pc[u] = "wupinc" => state[d] = "ready"
        /\ pc[d] # "ext" /\ d # t
    BY <1>1, <2>1 DEF IInv, Waking
  <2> HIDE DEF d
  <2>3. state'[d] = state[d] /\ pc'[d] = pc[d] /\ arg'[d] = arg[d]
    BY <1>8, <2>2
  <2>4. active' = d => pc'[d] = "sem" /\ Len(sem_queue'[arg'[d]]) > 1
    <3> SUFFICES ASSUME active' = d PROVE pc'[d] = "sem" /\ Len(sem_queue'[arg'[d]]) > 1
      OBVIOUS
    <3>1. q # <<>> /\ d = h
      BY <1>8, <2>2
    <3> QED BY <1>6, <1>7, <1>8, <2>3, <3>1 DEF q
  <2> QED BY <2>1, <2>2, <2>3, <2>4 DEF d
<1>13. Slots'
  BY <1>1, <1>3, <1>8, SlotsFrame
<1>14. Semaphores'
  <2>1. ASSUME NEW k \in Sem
        PROVE  /\ IsInjective(sem_queue'[k])
               /\ \A u \in Task : Contains(sem_queue'[k], u) <=> pc'[u] = "sem" /\ arg'[u] = k
               /\ \A i \in DOMAIN sem_queue'[k] : state'[sem_queue'[k][i]] = "pending" <=> i > 1
    <3>1. CASE k = n
      <4>1. \A u \in Task : Contains(Append(q, t), u) <=> pc'[u] = "sem" /\ arg'[u] = n
        BY <1>5, <1>6, <1>8
      <4>2. ASSUME NEW i \in 1 .. Len(q) + 1
            PROVE  state'[Append(q, t)[i]] = "pending" <=> i > 1
        <5>1. CASE i = Len(q) + 1
          <6>1. q = <<>> <=> Len(q) = 0
            BY <1>5, EmptySeq
          <6> QED BY <1>6, <1>8, <5>1, <6>1
        <5>2. CASE i # Len(q) + 1
          <6>1. i \in DOMAIN q /\ Append(q, t)[i] = q[i] /\ q[i] \in Task /\ q[i] # t
            BY <1>5, <1>6, <5>2, ElementOfSeq DEF Contains
          <6> QED BY <1>5, <1>8, <6>1
        <5> QED BY <5>1, <5>2
      <4>3. sem_queue'[k] = Append(q, t) /\ DOMAIN sem_queue'[k] = 1 .. Len(q) + 1
            /\ IsInjective(Append(q, t))
        BY <1>6, <1>8, <3>1
      <4> QED BY <3>1, <4>1, <4>2, <4>3
    <3>2. CASE k # n
      <4>1. /\ sem_queue'[k] = sem_queue[k] /\ IsInjective(sem_queue[k])
            /\ sem_queue[k] \in Seq(Task)
            /\ \A u \in Task : Contains(sem_queue[k], u) <=> pc[u] = "sem" /\ arg[u] = k
            /\ \A i \in DOMAIN sem_queue[k] : state[sem_queue[k][i]] = "pending" <=> i > 1
        BY <1>4, <1>8, <3>2 DEF Semaphores, SemWaiters
      <4>2. ASSUME NEW u \in Task
            PROVE  Contains(sem_queue[k], u) <=> pc'[u] = "sem" /\ arg'[u] = k
        <5>1. CASE u = t
          BY <1>1, <1>8, <3>2, <4>1, <5>1
        <5>2. CASE u # t
          BY <1>8, <4>1, <5>2
        <5> QED BY <5>1, <5>2
      <4>3. ASSUME NEW i \in DOMAIN sem_queue[k]
            PROVE  state'[sem_queue[k][i]] = state[sem_queue[k][i]]
        <5>1. sem_queue[k][i] \in Task /\ Contains(sem_queue[k], sem_queue[k][i])
          BY <4>1, LenProperties, ElementOfSeq DEF Contains
        <5>2. sem_queue[k][i] # t
          BY <1>1, <4>1, <5>1
        <5> QED BY <1>8, <5>1, <5>2
      <4>4. \A i \in DOMAIN sem_queue[k] : state'[sem_queue[k][i]] = "pending" <=> i > 1
        BY <4>1, <4>3
      <4>5. sem_queue'[k] = sem_queue[k] /\ IsInjective(sem_queue[k])
        BY <4>1
      <4> QED BY <4>2, <4>4, <4>5
    <3> QED BY <3>1, <3>2
  <2>2. \A u \in User : pc'[u] = "sem" => arg'[u] \in Sem
    BY <1>4, <1>8 DEF Semaphores
  <2> QED BY <2>1, <2>2 DEF Semaphores, SemWaiters
<1>15. Callers'
  <2>1. \A u \in Task : /\ state'[u] = "sending" <=> state[u] = "sending"
                        /\ state[u] = "sending" => pc'[u] = pc[u]
                        /\ state'[u] = "dead" <=> state[u] = "dead"
    BY <1>3, <1>8
  <2> QED BY <1>1, <1>4, <2>1 DEF Callers, CallersAreSending
<1>16. Service'
  <2>1. \A u \in User : pc[u] \in {"sta", "ext"}
                          => pc'[u] = pc[u] /\ state'[u] = state[u] /\ arg'[u] = arg[u]
    BY <1>1, <1>8
  <2>2. pc'[System] = pc[System] /\ state'[System] = state[System]
    BY <1>3, <1>8
  <2> QED BY <1>1, <1>3, <1>4, <2>1, <2>2 DEF Service, Asks, Answers
<1>17. Clients'
  <2>1. \A u \in User : pc'[u] \in {"sta", "ext", "started"} \/ state'[u] = "sending"
                          => pc'[u] = pc[u] /\ state'[u] = state[u] /\ arg'[u] = arg[u]
    BY <1>1, <1>8
  <2>2. pc'[System] = pc[System] /\ state'[System] = state[System]
    BY <1>3, <1>8
  <2> QED BY <1>1, <1>4, <2>1, <2>2 DEF Clients, Asks
<1> QED BY <1>9, <1>10, <1>11, <1>12, <1>13, <1>14, <1>15, <1>16, <1>17 DEF IInv

LEMMA UnlockSemStep == ASSUME IInv, NEW t \in User, UnlockSem(t) PROVE IInv'
<1> USE Constants
<1> DEFINE n == arg[t]
           q == sem_queue[n]
           r == Tail(q)
           w == Head(r)
<1>1. /\ active = t /\ pc[t] = "sem" /\ pc' = [pc EXCEPT ![t] = "run"]
      /\ UNCHANGED <<callers, pending, src, msg, overrun, intr, itask, chain, ticking,
                     wake_count, arg, loaded>>
  BY DEF UnlockSem, At, Goto, linkVars, waitVars
<1>2. /\ sem_queue' = [sem_queue EXCEPT ![n] = r]
      /\ \/ r = <<>> /\ active' = active /\ ready' = ready /\ state' = state
         \/ /\ r # <<>> /\ state' = [state EXCEPT ![w] = "ready"]
            /\ ready' = ready \cup {w} /\ active' = w
  BY DEF UnlockSem, HasWaiter, Successor
<1>3. /\ t \in Task /\ t # System /\ t # Idle /\ state[t] = "ready" /\ t \in ready
      /\ state[System] # "ready" /\ state[Idle] = "ready"
  BY <1>1, Running
<1>4. /\ TypeOK /\ Callers /\ Labels /\ Service /\ Clients /\ ReadyMask /\ Semaphores
      /\ pc \in [Task -> Label] /\ state \in [Task -> State]
      /\ arg \in [Task -> Task \cup Sem] /\ sem_queue \in [Sem -> Seq(Task)]
  BY DEF IInv, TypeOK
<1>5. /\ n \in Sem /\ q \in Seq(Task) /\ IsInjective(q) /\ Contains(q, t)
      /\ \A u \in Task : Contains(q, u) <=> pc[u] = "sem" /\ arg[u] = n
      /\ \A i \in DOMAIN q : state[q[i]] = "pending" <=> i > 1
      /\ DOMAIN q = 1 .. Len(q) /\ Len(q) \in Nat
  BY <1>1, <1>3, <1>4, LenProperties DEF Semaphores, SemWaiters
<1>6. q # <<>> /\ q[1] = t
  <2>1. PICK i \in 1 .. Len(q) : q[i] = t
    BY <1>5 DEF Contains
  <2>2. ~(i > 1)
    BY <1>3, <1>5, <2>1
  <2>3. i = 1
    BY <1>5, <2>2
  <2>4. q # <<>>
    BY <1>5, <2>1, EmptySeq
  <2> QED BY <2>1, <2>3, <2>4
<1>7. /\ r \in Seq(Task) /\ IsInjective(r) /\ Len(r) = Len(q) - 1 /\ Len(q) > 0
      /\ \A j \in 1 .. Len(q) - 1 : r[j] = q[j + 1]
      /\ \A x : Contains(r, x) <=> Contains(q, x) /\ x # t
      /\ DOMAIN r = 1 .. Len(r)
  BY <1>5, <1>6, TailQueue, LenProperties
<1>8. r # <<>> => /\ w = r[1] /\ Len(r) > 0 /\ w \in User /\ pc[w] = "sem"
                  /\ state[w] = "pending" /\ w # t
  <2> SUFFICES ASSUME r # <<>>
               PROVE  /\ w = r[1] /\ Len(r) > 0 /\ w \in User /\ pc[w] = "sem"
                      /\ state[w] = "pending" /\ w # t
    OBVIOUS
  <2>1. w = r[1] /\ Len(r) > 0
    BY <1>7, TailQueue
  <2>4. 1 \in 1 .. Len(r) /\ 1 \in 1 .. Len(q) - 1 /\ 2 \in 1 .. Len(q)
    BY <1>5, <1>7, <2>1
  <2>5. w \in Task /\ Contains(r, w)
    <3>1. w \in Task
      BY <1>7, <2>1, <2>4, ElementOfSeq
    <3> QED BY <1>7, <2>1, <2>4, <3>1 DEF Contains
  <2>2. w \in Task /\ Contains(r, w) /\ w = q[2] /\ 2 \in DOMAIN q
    BY <1>5, <1>7, <2>1, <2>4, <2>5
  <2>3. pc[w] = "sem" /\ w # t /\ state[w] = "pending"
    <3> HIDE DEF n, q, r, w
    <3>1. Contains(q, w) /\ w # t
      BY <1>7, <2>2
    <3>2. pc[w] = "sem"
      BY <1>5, <2>2, <3>1
    <3>3. state[q[2]] = "pending" <=> 2 > 1
      BY <1>5, <2>2
    <3> QED BY <2>2, <3>1, <3>2, <3>3
  <2> QED BY <1>4, <2>1, <2>2, <2>3 DEF Labels
<1> HIDE DEF n, q, r, w
<1>9. /\ \A u \in Task : u # t => pc'[u] = pc[u]
      /\ pc'[t] = "run" /\ state'[t] = "ready"
      /\ sem_queue'[n] = r /\ \A k \in Sem : k # n => sem_queue'[k] = sem_queue[k]
      /\ \/ r = <<>> /\ state' = state /\ ready' = ready /\ active' = t
         \/ /\ r # <<>> /\ ready' = ready \cup {w} /\ active' = w
            /\ \A u \in Task : state'[u] = IF u = w THEN "ready" ELSE state[u]
  BY <1>1, <1>2, <1>3, <1>4, <1>5, <1>8
<1>10. \A u \in Task : \/ state'[u] = state[u]
                       \/ u = w /\ r # <<>> /\ state'[u] = "ready"
  <2>1. CASE r = <<>>
    <3>1. state' = state
      BY <1>9, <2>1
    <3> QED BY <3>1
  <2>2. CASE r # <<>>
    <3>1. \A u \in Task : state'[u] = IF u = w THEN "ready" ELSE state[u]
      BY <1>9, <2>2
    <3> QED BY <2>2, <3>1
  <2> QED BY <2>1, <2>2
<1>11. TypeOK'
  <2>1. /\ sem_queue' \in [Sem -> Seq(Task)]
    BY <1>2, <1>4, <1>5, <1>7
  <2>2. state' \in [Task -> State] /\ pc' \in [Task -> Label]
    BY <1>1, <1>2, <1>3, <1>4, <1>8 DEF State, Label
  <2>3. active' \in Task /\ ready' \subseteq Task
    BY <1>3, <1>4, <1>8, <1>9 DEF TypeOK
  <2> QED BY <1>1, <2>1, <2>2, <2>3, <1>4 DEF TypeOK
<1>12. ReadyMask'
  BY <1>1, <1>3, <1>4, <1>8, <1>9 DEF ReadyMask
<1>13. Labels'
  <2>1. \A u \in User : u # t => pc'[u] = pc[u]
    BY <1>9
  <2>2. \A u \in User : u # t => \/ state'[u] = state[u]
                                 \/ pc[u] = "sem" /\ state'[u] = "ready"
    BY <1>8, <1>10
  <2>3. pc'[Idle] = pc[Idle] /\ pc'[System] = pc[System]
    BY <1>3, <1>9
  <2> QED BY <1>4, <1>9, <2>1, <2>2, <2>3 DEF Labels
<1>14. Waking'
  <2> SUFFICES ASSUME NEW u \in User, pc'[u] \in {"wup", "wupinc"}
               PROVE  LET d == arg'[u] IN
                      /\ d \in User /\ u < d
                      /\ state'[d] \in {"sleeping", "ready"}
                      /\ pc'[u] = "wupinc" => state'[d] = "ready"
                      /\ pc'[d] # "ext"
                      /\ active' = d => pc'[d] = "sem" /\ Len(sem_queue'[arg'[d]]) > 1
    BY DEF Waking
  <2>1. u # t /\ pc'[u] = pc[u] /\ arg'[u] = arg[u]
    BY <1>1, <1>9
  <2> DEFINE d == arg[u]
  <2>2. /\ d \in User /\ u < d /\ state[d] \in {"sleeping", "ready"}
        /\ pc[u] = "wupinc" => state[d] = "ready"
        /\ pc[d] # "ext"
        /\ d = t => Len(q) > 1
    BY <1>1, <2>1 DEF IInv, Waking, q, n
  <2> HIDE DEF d
  <2>3. r # <<>> => d # w
    BY <1>8, <2>2
  <2>4. state'[d] = state[d]
    BY <1>10, <2>2, <2>3
  <2>5. active' # d
    <3>1. r = <<>> <=> Len(r) = 0
      BY <1>7, EmptySeq
    <3> QED BY <1>5, <1>7, <1>9, <2>2, <2>3, <3>1
  <2>6. pc'[d] # "ext"
    <3>1. CASE d = t
      BY <1>9, <3>1
    <3>2. CASE d # t
      <4>1. d \in Task /\ pc[d] # "ext"
        BY <2>2
      <4>2. pc'[d] = pc[d]
        BY <1>9, <3>2, <4>1
      <4> QED BY <4>1, <4>2
    <3> QED BY <3>1, <3>2
  <2> QED BY <2>1, <2>2, <2>4, <2>5, <2>6 DEF d
<1>15. Slots'
  BY <1>1, <1>8, <1>9, <1>10, SlotsFrame
<1>16. Semaphores'
  <2>1. ASSUME NEW k \in Sem
        PROVE  /\ IsInjective(sem_queue'[k])
               /\ \A u \in Task : Contains(sem_queue'[k], u) <=> pc'[u] = "sem" /\ arg'[u] = k
               /\ \A i \in DOMAIN sem_queue'[k] : state'[sem_queue'[k][i]] = "pending" <=> i > 1
    <3>1. CASE k = n
      <4>1. \A u \in Task : Contains(r, u) <=> pc'[u] = "sem" /\ arg'[u] = n
        BY <1>1, <1>5, <1>7, <1>9
      <4>2. ASSUME NEW i \in 1 .. Len(r)
            PROVE  state'[r[i]] = "pending" <=> i > 1
        <5>1. r[i] \in Task /\ r[i] = q[i + 1] /\ i + 1 \in DOMAIN q /\ state[r[i]] = "pending"
          <6>1. r[i] \in Task
            BY <1>7, ElementOfSeq
          <6>2. r[i] = q[i + 1] /\ i + 1 \in 1 .. Len(q) /\ i + 1 > 1
            BY <1>5, <1>7
          <6>3. state[q[i + 1]] = "pending"
            BY <1>5, <6>2
          <6> QED BY <1>5, <6>1, <6>2, <6>3
        <5>2. r # <<>> /\ w = r[1] /\ 1 \in 1 .. Len(r)
          BY <1>7, <1>8, EmptySeq
        <5>3. r[i] = w <=> i = 1
          BY <1>7, <5>2 DEF IsInjective
        <5>4. state'[r[i]] = IF r[i] = w THEN "ready" ELSE state[r[i]]
          BY <1>9, <5>1, <5>2
        <5> QED BY <5>1, <5>3, <5>4
      <4>3. sem_queue'[k] = r
        BY <1>9, <3>1
      <4> QED BY <1>7, <3>1, <4>1, <4>2, <4>3
    <3>2. CASE k # n
      <4>1. /\ sem_queue'[k] = sem_queue[k] /\ IsInjective(sem_queue[k])
            /\ sem_queue[k] \in Seq(Task)
            /\ \A u \in Task : Contains(sem_queue[k], u) <=> pc[u] = "sem" /\ arg[u] = k
            /\ \A i \in DOMAIN sem_queue[k] : state[sem_queue[k][i]] = "pending" <=> i > 1
        BY <1>4, <1>9, <3>2 DEF Semaphores, SemWaiters
      <4>2. ASSUME NEW u \in Task
            PROVE  Contains(sem_queue[k], u) <=> pc'[u] = "sem" /\ arg'[u] = k
        <5>1. CASE u = t
          BY <1>1, <1>9, <3>2, <4>1, <5>1 DEF n
        <5>2. CASE u # t
          BY <1>1, <1>9, <4>1, <5>2
        <5> QED BY <5>1, <5>2
      <4>3. ASSUME NEW i \in DOMAIN sem_queue[k]
            PROVE  state'[sem_queue[k][i]] = state[sem_queue[k][i]]
        <5>1. sem_queue[k][i] \in Task /\ Contains(sem_queue[k], sem_queue[k][i])
          BY <4>1, LenProperties, ElementOfSeq DEF Contains
        <5>2. r # <<>> => arg[w] = n
          BY <1>5, <1>7, <1>8, LenProperties DEF Contains
        <5>3. r # <<>> => sem_queue[k][i] # w
          BY <3>2, <4>1, <5>1, <5>2
        <5> QED BY <1>10, <5>1, <5>3
      <4>4. \A i \in DOMAIN sem_queue[k] : state'[sem_queue[k][i]] = "pending" <=> i > 1
        BY <4>1, <4>3
      <4>5. sem_queue'[k] = sem_queue[k] /\ IsInjective(sem_queue[k])
        BY <4>1
      <4> QED BY <4>2, <4>4, <4>5
    <3> QED BY <3>1, <3>2
  <2>2. \A u \in User : pc'[u] = "sem" => arg'[u] \in Sem
    BY <1>1, <1>4, <1>9 DEF Semaphores
  <2> QED BY <2>1, <2>2 DEF Semaphores, SemWaiters
<1>17. Callers'
  <2>1. \A u \in Task : /\ state'[u] = "sending" <=> state[u] = "sending"
                        /\ state[u] = "sending" => pc'[u] = pc[u]
                        /\ state'[u] = "dead" <=> state[u] = "dead"
    BY <1>3, <1>8, <1>9, <1>10
  <2> QED BY <1>1, <1>4, <2>1 DEF Callers, CallersAreSending
<1>18. pc'[System] = pc[System] /\ state'[System] = state[System]
  BY <1>3, <1>8, <1>9, <1>10
<1>19. Service'
  <2>1. \A u \in User : pc[u] \in {"sta", "ext"} => pc'[u] = pc[u] /\ state'[u] = state[u]
    BY <1>1, <1>8, <1>9, <1>10
  <2> QED BY <1>1, <1>3, <1>4, <1>18, <2>1 DEF Service, Asks, Answers
<1>20. Clients'
  <2>1. \A u \in User : pc'[u] \in {"sta", "ext", "started"} \/ state'[u] = "sending"
                          => pc'[u] = pc[u] /\ state'[u] = state[u]
    BY <1>1, <1>8, <1>9, <1>10
  <2> QED BY <1>1, <1>4, <1>18, <2>1 DEF Clients, Asks
<1> QED BY <1>11, <1>12, <1>13, <1>14, <1>15, <1>16, <1>17, <1>19, <1>20 DEF IInv

-----------------------------------------------------------------------------
(* Requests to the system task. *)

\* A client sends a request: it either finds the system task waiting or queues.
LEMMA RequestStep ==
  ASSUME IInv, NEW t \in User, active = t, pc[t] = "run",
         NEW m \in Message, Send(t, System, m),
         NEW l \in {"sta", "ext"}, pc' = [pc EXCEPT ![t] = l],
         \/ l = "sta" /\ m.code = "start" /\ m.tasknr = arg'[t]
         \/ l = "ext" /\ m.code = "exit" /\ t \in Quitters,
         arg' \in [Task -> Task \cup Sem], \A u \in Task : u # t => arg'[u] = arg[u],
         loaded' = loaded
  PROVE  IInv'
<1> USE Constants
<1>1. /\ Dispatch
      /\ SendDirect(t, System, m) \/ SendQueued(t, System, m)
      /\ UNCHANGED <<overrun, intr, itask, chain, ticking, sem_queue, wake_count>>
  BY DEF Send, waitVars
<1>2. /\ t \in Task /\ t # System /\ t # Idle /\ state[t] = "ready" /\ t \in ready
      /\ state[System] # "ready" /\ state[Idle] = "ready"
      /\ active' \in ready' /\ IsFirstReady(active', ready')
  BY <1>1, Running, DispatchFirst
<1>3. /\ TypeOK /\ Callers /\ Labels /\ Service /\ Clients /\ ReadyMask
      /\ pc \in [Task -> Label] /\ state \in [Task -> State] /\ src \in [Task -> Source]
      /\ msg \in [Task -> Message] /\ pending \in [Task -> Source]
  BY DEF IInv, TypeOK
<1>4. /\ pc' \in [Task -> Label] /\ pc'[t] = l /\ \A u \in Task : u # t => pc'[u] = pc[u]
  BY <1>2, <1>3 DEF Label
<1>5. CASE SendDirect(t, System, m)
  <2>1. /\ state[System] = "receiving" /\ src' = [src EXCEPT ![System] = t]
        /\ msg' = [msg EXCEPT ![t] = m, ![System] = m]
        /\ state' = [state EXCEPT ![System] = "ready"] /\ ready' = ready \cup {System}
        /\ callers' = callers /\ pending' = pending
    BY <1>5 DEF SendDirect
  <2>2. /\ \A u \in Task : /\ state'[u] = IF u = System THEN "ready" ELSE state[u]
                           /\ u # System => src'[u] = src[u]
                           /\ u # System /\ u # t => msg'[u] = msg[u]
        /\ src'[System] = t /\ msg'[System] = m
    BY <1>2, <1>3, <2>1
  <2>3. src' \in [Task -> Source] /\ msg' \in [Task -> Message] /\ state' \in [Task -> State]
    BY <1>2, <1>3, <2>1, Sources DEF State
  <2>4. TypeOK'
    BY <1>1, <1>2, <1>3, <1>4, <2>1, <2>3 DEF TypeOK
  <2>5. active' = System
    <3>1. System \in ready' /\ active' \in Task
      BY <2>1, <2>4 DEF TypeOK
    <3> QED BY <1>2, <3>1 DEF IsFirstReady
  <2>6. ReadyMask'
    BY <1>2, <1>3, <2>1, <2>2, <2>5 DEF ReadyMask
  <2>7. Labels'
    BY <1>2, <1>3, <1>4, <2>2 DEF Labels
  <2>8. Waking'
    BY <1>2, <1>4, <2>2, <2>4, <2>6, <2>7, WakingFrame
  <2>9. Slots'
    BY <1>1, <1>2, <1>4, <2>1, <2>2, SlotsFrame
  <2>10. Semaphores'
    BY <1>1, <1>2, <1>4, <2>1, <2>2, SemaphoresFrame
  <2>11. Callers'
    <3>1. \A u \in Task : /\ state'[u] = "sending" <=> state[u] = "sending"
                          /\ state'[u] = "dead" <=> state[u] = "dead"
                          /\ state[u] = "sending" => pc'[u] = pc[u]
      BY <1>2, <1>4, <2>1, <2>2
    <3> QED BY <1>3, <2>1, <3>1 DEF Callers, CallersAreSending
  <2>12. pc'[System] = "handle" /\ state'[System] = "ready" /\ Asks(t, m)'
    BY <1>2, <1>3, <1>4, <2>1, <2>2 DEF Service, Asks
  <2>13. Service'
    BY <1>2, <2>2, <2>5, <2>12 DEF Service, Asks
  <2>14. Clients'
    <3>1. ASSUME NEW u \in User, u # t
          PROVE  ~(pc[u] \in {"sta", "ext"} /\ state[u] = "ready")
      BY <1>2, <1>3, <2>1, <3>1 DEF Clients, Service
    <3>2. ASSUME NEW u \in User, u # t
          PROVE  /\ pc'[u] = pc[u] /\ state'[u] = state[u] /\ msg'[u] = msg[u]
                 /\ src'[u] = src[u] /\ arg'[u] = arg[u] /\ pending'[u] = pending[u]
      BY <1>4, <2>1, <2>2, <3>2
    <3>3. state'[t] = "ready" /\ src'[System] = t
      BY <1>2, <2>2
    <3> QED BY <1>3, <1>4, <2>12, <3>1, <3>2, <3>3 DEF Clients, Asks
  <2> QED BY <2>4, <2>6, <2>7, <2>8, <2>9, <2>10, <2>11, <2>13, <2>14 DEF IInv
<1>6. CASE SendQueued(t, System, m)
  <2>1. /\ state' = [state EXCEPT ![t] = "sending"] /\ ready' = ready \ {t}
        /\ msg' = [msg EXCEPT ![t] = m] /\ pending' = [pending EXCEPT ![t] = System]
        /\ callers' = [callers EXCEPT ![System] = Append(@, t)] /\ src' = src
    BY <1>6 DEF SendQueued, Unready
  <2>2. /\ \A u \in Task : /\ state'[u] = IF u = t THEN "sending" ELSE state[u]
                           /\ pending'[u] = IF u = t THEN System ELSE pending[u]
                           /\ u # t => msg'[u] = msg[u]
                           /\ u # System => callers'[u] = callers[u]
        /\ msg'[t] = m
    BY <1>2, <1>3, <2>1 DEF TypeOK
  <2>3. callers' \in [Task -> Seq(Task)] /\ CallersAreSending'
    BY <1>2, <1>3, <2>1, JoinCallers DEF Callers
  <2>4. /\ msg' \in [Task -> Message] /\ state' \in [Task -> State]
        /\ pending' \in [Task -> Source]
    BY <1>2, <1>3, <2>1, Sources DEF State
  <2>5. TypeOK'
    BY <1>1, <1>2, <1>3, <1>4, <2>1, <2>3, <2>4 DEF TypeOK
  <2>6. ReadyMask'
    BY <1>2, <1>3, <2>1, <2>2 DEF ReadyMask
  <2>7. Labels'
    BY <1>2, <1>3, <1>4, <2>2 DEF Labels
  <2>8. Waking'
    BY <1>2, <1>4, <2>2, <2>5, <2>6, <2>7, WakingFrame
  <2>9. Slots'
    BY <1>1, <1>2, <1>4, <2>1, <2>2, SlotsFrame
  <2>10. Semaphores'
    BY <1>1, <1>2, <1>4, <2>1, <2>2, SemaphoresFrame
  <2>11. Callers'
    <3>1. \A u \in Task : u # t => /\ state'[u] = state[u] /\ pc'[u] = pc[u]
                                   /\ pending'[u] = pending[u]
      BY <1>4, <2>2
    <3>2. state'[t] = "sending" /\ pending'[t] = System
      BY <1>2, <2>2
    <3>5. state'[System] # "dead"
      BY <1>2, <1>3, <3>1 DEF Service
    <3>6. \A u \in Task : state[u] = "dead" => callers[u] = <<>>
      BY <1>3 DEF Callers
    <3>3. \A u \in Task : state'[u] = "dead" => callers'[u] = <<>>
      BY <2>2, <3>1, <3>2, <3>5, <3>6
    <3>4. \A u \in User : state'[u] = "sending" /\ pending'[u] # System
                            => pc'[u] = "run" /\ <<u, pending'[u]>> \in Sends
      BY <1>3, <3>1, <3>2 DEF Callers
    <3> QED BY <2>3, <3>3, <3>4 DEF Callers
  <2>12. Service'
    <3>1. \A u \in User : pc[u] \in {"sta", "ext"} => /\ pc'[u] = pc[u] /\ arg'[u] = arg[u]
                                                      /\ state'[u] = state[u]
      BY <1>2, <1>4, <2>2
    <3>2. /\ pc'[System] = pc[System] /\ state'[System] = state[System]
          /\ msg'[System] = msg[System] /\ pending'[System] = pending[System]
          /\ src'[System] = src[System]
      BY <1>2, <1>4, <2>1, <2>2
    <3>3. CASE state[System] = "receiving"
      BY <1>3, <3>2, <3>3 DEF Service
    <3>4. CASE state[System] = "sending"
      <4>1. PICK c \in User : /\ c = src[System] /\ state[c] = "ready"
                              /\ Answers(c, msg[System])
                              /\ pc[System] = "recv" /\ pending[System] = c
        BY <1>3, <3>4 DEF Service
      <4>2. pc'[c] = pc[c] /\ arg'[c] = arg[c] /\ state'[c] = state[c]
        BY <3>1, <4>1 DEF Answers
      <4>3. Answers(src[System], msg[System])'
        BY <3>2, <4>1, <4>2 DEF Answers
      <4>4. state'[c] = "ready" /\ src'[System] = c /\ pending'[System] = c
            /\ pc'[System] = "recv" /\ state'[System] = "sending"
        BY <3>2, <3>4, <4>1, <4>2
      <4> QED BY <4>3, <4>4 DEF Service
    <3> QED BY <1>2, <1>3, <3>3, <3>4 DEF Service
  <2>13. Clients'
    <3>1. ASSUME NEW u \in User, u # t
          PROVE  /\ pc'[u] = pc[u] /\ state'[u] = state[u] /\ msg'[u] = msg[u]
                 /\ src'[u] = src[u] /\ arg'[u] = arg[u] /\ pending'[u] = pending[u]
      BY <1>4, <2>1, <2>2, <3>1
    <3>2. Asks(t, m)' /\ state'[t] = "sending" /\ pending'[t] = System
      BY <1>2, <1>4, <2>2 DEF Asks
    <3>3. pc'[System] = pc[System] /\ state'[System] = state[System] /\ src' = src
      BY <1>2, <1>4, <2>1, <2>2
    <3> QED BY <1>3, <1>4, <2>2, <3>1, <3>2, <3>3 DEF Clients, Asks
  <2> QED BY <2>5, <2>6, <2>7, <2>8, <2>9, <2>10, <2>11, <2>12, <2>13 DEF IInv
<1> QED BY <1>1, <1>5, <1>6

LEMMA StartTaskStep == ASSUME IInv, NEW t \in User, StartTask(t) PROVE IInv'
<1> USE Constants
<1>1. PICK n \in User : /\ Send(t, System, [code |-> "start", tasknr |-> n])
                        /\ arg' = [arg EXCEPT ![t] = n]
  BY DEF StartTask
<1> DEFINE m == [code |-> "start", tasknr |-> n]
<1>2. active = t /\ pc[t] = "run" /\ pc' = [pc EXCEPT ![t] = "sta"] /\ loaded' = loaded
  BY DEF StartTask, At, Goto
<1>3. t \in Task /\ n \in Task /\ arg \in [Task -> Task \cup Sem]
  BY DEF IInv, TypeOK
<1>4. /\ arg' \in [Task -> Task \cup Sem] /\ arg'[t] = n
      /\ \A u \in Task : u # t => arg'[u] = arg[u]
  BY <1>1, <1>3
<1>5. m \in Message /\ m.code = "start" /\ m.tasknr = n
  BY <1>3, MessageTypes
<1>6. Send(t, System, m)
  BY <1>1
<1> HIDE DEF m
<1> QED BY <1>2, <1>4, <1>5, <1>6, RequestStep

LEMMA ExitTaskStep == ASSUME IInv, NEW t \in User, ExitTask(t) PROVE IInv'
<1> USE Constants
<1> DEFINE m == [code |-> "exit", tasknr |-> t]
<1>1. /\ active = t /\ pc[t] = "run" /\ t \in Quitters /\ pc' = [pc EXCEPT ![t] = "ext"]
      /\ arg' = arg /\ loaded' = loaded /\ Send(t, System, m)
  BY DEF ExitTask, At, Goto
<1>2. t \in Task /\ arg \in [Task -> Task \cup Sem]
  BY DEF IInv, TypeOK
<1>3. m \in Message /\ m.code = "exit"
  BY <1>2, MessageTypes
<1> HIDE DEF m
<1> QED BY <1>1, <1>2, <1>3, RequestStep

\* A client that waits for its answer finds the system task already sending it.
LEMMA AwaitStartStep == ASSUME IInv, NEW t \in User, AwaitStart(t) PROVE IInv'
<1> USE Constants
<1>1. /\ active = t /\ pc[t] = "sta" /\ pc' = [pc EXCEPT ![t] = "started"]
      /\ Receive(t, System)
      /\ arg' = arg /\ loaded' = loaded
  BY DEF AwaitStart, At, Goto
<1>2. /\ Dispatch /\ pending' = [pending EXCEPT ![t] = System]
      /\ UNCHANGED <<intr, itask, chain, ticking, sem_queue, wake_count>>
  BY <1>1 DEF Receive, waitVars
<1>3. /\ t \in Task /\ t # System /\ t # Idle /\ state[t] = "ready" /\ t \in ready
      /\ state[System] # "ready" /\ state[Idle] = "ready"
      /\ active' \in ready' /\ IsFirstReady(active', ready')
  BY <1>1, <1>2, Running, DispatchFirst
<1>4. /\ TypeOK /\ Callers /\ Labels /\ Service /\ Clients /\ ReadyMask
      /\ pc \in [Task -> Label] /\ state \in [Task -> State] /\ src \in [Task -> Source]
      /\ msg \in [Task -> Message] /\ pending \in [Task -> Source]
  BY DEF IInv, TypeOK
<1>5. /\ src[System] = t /\ state[System] = "sending" /\ pending[System] = t
      /\ pc[System] = "recv" /\ Answers(t, msg[System])
  BY <1>1, <1>3, <1>4 DEF Clients, Service
<1>6. Contains(callers[t], System)
  BY <1>3, <1>4, <1>5 DEF Callers, CallersAreSending
<1>7. PICK i \in DOMAIN callers[t] : callers[t][i] = System /\ ReceiveQueued(t, i)
  <2>1. System \notin {INTR, INTR2} /\ System # ANY
    BY Sources
  <2>2. callers[t] \in Seq(Task) /\ DOMAIN callers[t] = 1 .. Len(callers[t])
    BY <1>3, <1>4, LenProperties DEF TypeOK
  <2>3. Acceptable(t, System) # {}
    BY <1>6, <2>2 DEF Acceptable, Contains
  <2>4. \E i \in Acceptable(t, System) : ReceiveQueued(t, i)
    BY <1>1, <2>1, <2>3 DEF Receive
  <2> QED BY <2>1, <2>4 DEF Acceptable
<1>8. /\ msg' = [msg EXCEPT ![t] = msg[System]] /\ src' = [src EXCEPT ![t] = System]
      /\ state' = [state EXCEPT ![System] = "ready"] /\ ready' = ready \cup {System}
      /\ callers' = [callers EXCEPT ![t] = RemoveAt(@, i)] /\ overrun' = overrun
  BY <1>7 DEF ReceiveQueued
<1>9. callers' \in [Task -> Seq(Task)] /\ CallersAreSending'
  BY <1>2, <1>3, <1>4, <1>7, <1>8, LeaveCallers DEF Callers
<1>10. /\ \A u \in Task : /\ state'[u] = IF u = System THEN "ready" ELSE state[u]
                          /\ u # t => /\ src'[u] = src[u] /\ msg'[u] = msg[u]
                                      /\ callers'[u] = callers[u]
                                      /\ pending'[u] = pending[u] /\ pc'[u] = pc[u]
       /\ src'[t] = System /\ msg'[t] = msg[System] /\ pc'[t] = "started"
  BY <1>1, <1>2, <1>3, <1>4, <1>8 DEF TypeOK
<1>11. TypeOK'
  <2>1. src' \in [Task -> Source] /\ msg' \in [Task -> Message] /\ state' \in [Task -> State]
    BY <1>3, <1>4, <1>8, Sources DEF State
  <2>2. pending' \in [Task -> Source] /\ pc' \in [Task -> Label]
    BY <1>1, <1>2, <1>3, <1>4, Sources DEF Label
  <2> QED BY <1>1, <1>2, <1>3, <1>4, <1>8, <1>9, <2>1, <2>2 DEF TypeOK
<1>12. active' = System
  <2>1. System \in ready' /\ active' \in Task
    BY <1>8, <1>11 DEF TypeOK
  <2> QED BY <1>3, <2>1 DEF IsFirstReady
<1>13. ReadyMask'
  BY <1>3, <1>4, <1>8, <1>10, <1>12 DEF ReadyMask
<1>14. Labels'
  BY <1>3, <1>4, <1>10 DEF Labels
<1>15. Waking'
  BY <1>1, <1>3, <1>10, <1>11, <1>13, <1>14, WakingFrame
<1>16. Slots'
  BY <1>1, <1>2, <1>3, <1>5, <1>10, SlotsFrame
<1>17. Semaphores'
  BY <1>1, <1>2, <1>5, <1>10, SemaphoresFrame
<1>18. Callers'
  <2>1. \A u \in Task : /\ state'[u] = "sending" => state[u] = "sending" /\ u # t
                        /\ state'[u] = "dead" => state[u] = "dead" /\ u # t
    BY <1>3, <1>10
  <2> QED BY <1>4, <1>9, <1>10, <2>1 DEF Callers
<1>19. Service'
  BY <1>3, <1>5, <1>10, <1>12 DEF Service
<1>20. Clients'
  <2>1. ASSUME NEW u \in User, u # t
        PROVE  ~(pc[u] \in {"sta", "ext"} /\ state[u] = "ready")
    BY <1>3, <1>4, <1>5, <2>1 DEF Clients
  <2>2. ASSUME NEW u \in User, u # t
        PROVE  /\ pc'[u] = pc[u] /\ state'[u] = state[u] /\ msg'[u] = msg[u]
               /\ src'[u] = src[u] /\ arg'[u] = arg[u] /\ pending'[u] = pending[u]
    BY <1>1, <1>10, <2>2
  <2>3. state'[t] = "ready" /\ arg'[t] = arg[t]
    BY <1>1, <1>3, <1>10
  <2> QED BY <1>4, <1>5, <1>10, <2>1, <2>2, <2>3 DEF Clients, Asks, Answers
<1> QED BY <1>11, <1>13, <1>14, <1>15, <1>16, <1>17, <1>18, <1>19, <1>20 DEF IInv

\* While the system task runs and holds no request, no client waits for it READY.
LEMMA NoClientServed ==
  ASSUME IInv, active = System, pc[System] = "recv"
  PROVE  \A u \in User : ~(pc[u] \in {"sta", "ext"} /\ state[u] = "ready")
<1>1. state[System] = "ready"
  BY Constants DEF IInv, ReadyMask
<1> QED BY <1>1 DEF IInv, Clients

LEMMA SystemReceiveStep == ASSUME IInv, SystemReceive PROVE IInv'
<1> USE Constants
<1>1. /\ active = System /\ pc[System] = "recv" /\ pc' = [pc EXCEPT ![System] = "handle"]
      /\ Receive(System, ANY)
      /\ arg' = arg /\ loaded' = loaded
  BY DEF SystemReceive, At, Goto
<1>2. /\ Dispatch /\ pending' = [pending EXCEPT ![System] = ANY]
      /\ UNCHANGED <<intr, itask, chain, ticking, sem_queue, wake_count>>
  BY <1>1 DEF Receive, waitVars
<1>3. /\ state[System] = "ready" /\ System \in ready /\ state[Idle] = "ready"
      /\ active' \in ready' /\ IsFirstReady(active', ready')
      /\ \A u \in User : ~(pc[u] \in {"sta", "ext"} /\ state[u] = "ready")
  BY <1>1, <1>2, DispatchFirst, NoClientServed DEF IInv, ReadyMask
<1>4. /\ TypeOK /\ Callers /\ Labels /\ Service /\ Clients /\ ReadyMask
      /\ pc \in [Task -> Label] /\ state \in [Task -> State] /\ src \in [Task -> Source]
      /\ msg \in [Task -> Message] /\ pending \in [Task -> Source]
      /\ overrun \in [Task -> Char]
  BY DEF IInv, TypeOK
<1>5. /\ pc' \in [Task -> Label] /\ pc'[System] = "handle"
      /\ \A u \in Task : u # System => pc'[u] = pc[u] /\ pending'[u] = pending[u]
      /\ pending' \in [Task -> Source]
  BY <1>1, <1>2, <1>4, Sources DEF Label
<1>6. CASE ReceiveBlock(System, ANY)
  <2>1. /\ src' = [src EXCEPT ![System] = ANY] /\ state' = [state EXCEPT ![System] = "receiving"]
        /\ ready' = ready \ {System} /\ msg' = msg /\ callers' = callers
        /\ overrun' = [overrun EXCEPT ![System] = IF ANY = INTR THEN 0 ELSE @]
    BY <1>6 DEF ReceiveBlock, Unready
  <2>2. /\ \A u \in Task : /\ state'[u] = IF u = System THEN "receiving" ELSE state[u]
                           /\ u # System => src'[u] = src[u]
        /\ src'[System] = ANY
    BY <1>4, <2>1
  <2>3. TypeOK'
    <3>1. src' \in [Task -> Source] /\ state' \in [Task -> State] /\ overrun' \in [Task -> Char]
      BY <1>4, <2>1, Sources DEF State
    <3> QED BY <1>1, <1>2, <1>3, <1>4, <1>5, <2>1, <3>1 DEF TypeOK
  <2>4. ReadyMask'
    BY <1>3, <1>4, <2>1, <2>2 DEF ReadyMask
  <2>5. Labels'
    BY <1>4, <1>5, <2>2 DEF Labels
  <2>6. Waking'
    BY <1>1, <1>3, <1>5, <2>2, <2>3, <2>4, <2>5, WakingFrame
  <2>7. Slots'
    BY <1>2, <1>3, <1>5, <1>1, <2>2, SlotsFrame
  <2>8. Semaphores'
    BY <1>1, <1>2, <1>3, <1>5, <2>2, SemaphoresFrame
  <2>9. Callers'
    <3>1. \A u \in Task : /\ state'[u] = "sending" <=> state[u] = "sending" /\ u # System
                          /\ state'[u] = "dead" => state[u] = "dead"
                          /\ state[u] = "sending" => u # System
      BY <1>3, <2>2
    <3>2. CallersAreSending'
      BY <1>4, <1>5, <2>1, <3>1 DEF Callers, CallersAreSending
    <3>3. \A t \in User : state[t] = "sending" /\ pending[t] # System
                            => pc[t] = "run" /\ <<t, pending[t]>> \in Sends
      BY <1>4 DEF Callers
    <3>4. \A t \in User : state'[t] = "sending" /\ pending'[t] # System
                            => pc'[t] = "run" /\ <<t, pending'[t]>> \in Sends
      BY <1>5, <3>1, <3>3
    <3>5. \A d \in Task : state'[d] = "dead" => callers'[d] = <<>>
      BY <1>4, <2>1, <3>1 DEF Callers
    <3> QED BY <3>2, <3>4, <3>5 DEF Callers
  <2>10. Service'
    BY <1>5, <2>2 DEF Service
  <2>11. Clients'
    BY <1>1, <1>3, <1>4, <1>5, <2>1, <2>2 DEF Clients, Asks
  <2> QED BY <2>3, <2>4, <2>5, <2>6, <2>7, <2>8, <2>9, <2>10, <2>11 DEF IInv
<1>7. ASSUME NEW i \in DOMAIN callers[System], ReceiveQueued(System, i) PROVE IInv'
  <2> DEFINE c == callers[System][i]
  <2>1. /\ msg' = [msg EXCEPT ![System] = msg[c]] /\ src' = [src EXCEPT ![System] = c]
        /\ state' = [state EXCEPT ![c] = "ready"] /\ ready' = ready \cup {c}
        /\ callers' = [callers EXCEPT ![System] = RemoveAt(@, i)] /\ overrun' = overrun
    BY <1>7 DEF ReceiveQueued
  <2>2. /\ callers' \in [Task -> Seq(Task)] /\ CallersAreSending'
        /\ c \in Task /\ state[c] = "sending" /\ pending[c] = System
    BY <1>2, <1>3, <1>4, <2>1, LeaveCallers DEF Callers
  <2> HIDE DEF c
  <2>3. c \in User /\ Asks(c, msg[c])
    BY <1>3, <1>4, <2>2 DEF Clients
  <2>4. /\ \A u \in Task : /\ state'[u] = IF u = c THEN "ready" ELSE state[u]
                           /\ u # System => /\ src'[u] = src[u] /\ msg'[u] = msg[u]
                                            /\ callers'[u] = callers[u]
        /\ src'[System] = c /\ msg'[System] = msg[c]
    BY <1>4, <2>1, <2>2 DEF TypeOK
  <2>5. TypeOK'
    <3>1. /\ msg' \in [Task -> Message] /\ state' \in [Task -> State]
          /\ src' \in [Task -> Source]
      BY <1>4, <2>1, <2>2, Sources DEF State
    <3> QED BY <1>1, <1>2, <1>3, <1>4, <1>5, <2>1, <2>2, <3>1 DEF TypeOK
  <2>6. active' = System
    <3>1. System \in ready' /\ active' \in Task
      BY <1>3, <2>1, <2>5 DEF TypeOK
    <3> QED BY <1>3, <3>1 DEF IsFirstReady
  <2>7. ReadyMask'
    BY <1>3, <1>4, <2>1, <2>2, <2>4, <2>6 DEF ReadyMask
  <2>8. pc[c] \in {"sta", "ext"}
    BY <2>3 DEF Asks
  <2>9. Labels'
    <3>1. \A u \in User : /\ pc'[u] = pc[u]
                          /\ \/ state'[u] = state[u]
                             \/ pc[u] \in {"sta", "ext"} /\ state'[u] = "ready"
      BY <1>5, <2>4, <2>8
    <3>2. pc'[Idle] = pc[Idle]
      BY <1>5
    <3> QED BY <1>4, <1>5, <3>1, <3>2 DEF Labels
  <2>10. Waking'
    BY <1>1, <1>3, <1>5, <2>2, <2>4, <2>5, <2>7, <2>9, WakingFrame
  <2>11. Slots'
    BY <1>1, <1>2, <1>3, <1>5, <2>2, <2>4, SlotsFrame
  <2>12. Semaphores'
    BY <1>1, <1>2, <1>5, <2>2, <2>4, SemaphoresFrame
  <2>13. Callers'
    <3>1. \A u \in Task : /\ state'[u] = "sending" => state[u] = "sending" /\ u # System
                          /\ state'[u] = "dead" => state[u] = "dead" /\ u # System
      BY <1>3, <2>4
    <3>2. \A u \in Task : state'[u] = "dead" => callers'[u] = <<>>
      BY <1>4, <2>4, <3>1 DEF Callers
    <3>3. \A u \in User : state'[u] = "sending" /\ pending'[u] # System
                            => pc'[u] = "run" /\ <<u, pending'[u]>> \in Sends
      BY <1>4, <1>5, <3>1 DEF Callers
    <3> QED BY <2>2, <3>2, <3>3 DEF Callers
  <2>14. state'[c] = "ready" /\ pc'[c] = pc[c] /\ state'[System] = "ready" /\ c # System
    BY <1>3, <1>5, <2>3, <2>4
  <2>15. Service'
    BY <1>1, <1>5, <2>3, <2>4, <2>6, <2>14 DEF Service, Asks
  <2>16. Clients'
    <3>1. ASSUME NEW u \in User, u # c
          PROVE  /\ pc'[u] = pc[u] /\ state'[u] = state[u] /\ msg'[u] = msg[u]
                 /\ src'[u] = src[u] /\ arg'[u] = arg[u] /\ pending'[u] = pending[u]
      BY <1>1, <1>5, <2>4, <3>1
    <3> QED BY <1>3, <1>4, <1>5, <2>4, <2>8, <2>14, <3>1 DEF Clients, Asks
  <2> QED BY <2>5, <2>7, <2>9, <2>10, <2>11, <2>12, <2>13, <2>15, <2>16 DEF IInv
<1>8. ANY \notin {INTR, INTR2}
  BY Sources
<1> QED BY <1>1, <1>6, <1>7, <1>8 DEF Receive, Acceptable

\* The client of the system task, while it serves one.
LEMMA Serving ==
  ASSUME IInv, active = System
  PROVE  /\ state[System] = "ready" /\ System \in ready /\ state[Idle] = "ready"
         /\ pc[System] = "handle" => /\ src[System] \in User /\ state[src[System]] = "ready"
                                     /\ Asks(src[System], msg[System])
         /\ pc[System] = "reply" => /\ src[System] \in User /\ state[src[System]] = "ready"
                                    /\ Answers(src[System], msg[System])
         /\ \A u \in User : pc[u] \in {"sta", "ext"} /\ state[u] = "ready" => src[System] = u
         /\ pc[System] # "recv" => src[System] \in User
<1>1. state[System] = "ready" /\ System \in ready /\ state[Idle] = "ready"
  BY Constants DEF IInv, ReadyMask
<1> QED BY <1>1 DEF IInv, Service, Clients, Labels

LEMMA SystemReplyStep == ASSUME IInv, SystemReply PROVE IInv'
<1> USE Constants
<1> DEFINE c == src[System]
           m == msg[System]
<1>1. /\ active = System /\ pc[System] = "reply" /\ pc' = [pc EXCEPT ![System] = "recv"]
      /\ Send(System, c, m) /\ arg' = arg /\ loaded' = loaded
  BY DEF SystemReply, At, Goto
<1>2. /\ Dispatch
      /\ SendDirect(System, c, m) \/ SendQueued(System, c, m)
      /\ UNCHANGED <<overrun, intr, itask, chain, ticking, sem_queue, wake_count>>
  BY <1>1 DEF Send, waitVars
<1>3. /\ state[System] = "ready" /\ System \in ready /\ state[Idle] = "ready"
      /\ active' \in ready' /\ IsFirstReady(active', ready')
      /\ c \in User /\ c # System /\ c \in Task /\ state[c] = "ready" /\ Answers(c, m)
      /\ \A u \in User : pc[u] \in {"sta", "ext"} /\ state[u] = "ready" => u = c
  BY <1>1, <1>2, Serving, DispatchFirst
<1>4. /\ TypeOK /\ Callers /\ Labels /\ Service /\ Clients /\ ReadyMask
      /\ pc \in [Task -> Label] /\ state \in [Task -> State] /\ src \in [Task -> Source]
      /\ msg \in [Task -> Message] /\ pending \in [Task -> Source]
  BY DEF IInv, TypeOK
<1>5. pc[c] = "sta" /\ m \in Message
  BY <1>3, <1>4 DEF Answers
<1> HIDE DEF m, c
<1>6. SendQueued(System, c, m)
  BY <1>2, <1>3 DEF SendDirect
<1>7. /\ state' = [state EXCEPT ![System] = "sending"] /\ ready' = ready \ {System}
      /\ msg' = [msg EXCEPT ![System] = m] /\ pending' = [pending EXCEPT ![System] = c]
      /\ callers' = [callers EXCEPT ![c] = Append(@, System)] /\ src' = src
  BY <1>6 DEF SendQueued, Unready
<1>8. /\ \A u \in Task : /\ state'[u] = IF u = System THEN "sending" ELSE state[u]
                         /\ pending'[u] = IF u = System THEN c ELSE pending[u]
                         /\ pc'[u] = IF u = System THEN "recv" ELSE pc[u]
                         /\ u # c => callers'[u] = callers[u]
      /\ msg' = msg
  BY <1>1, <1>4, <1>7 DEF TypeOK, m
<1>9. callers' \in [Task -> Seq(Task)] /\ CallersAreSending'
  BY <1>3, <1>4, <1>7, JoinCallers DEF Callers
<1>10. TypeOK'
  <2>1. state' \in [Task -> State] /\ pending' \in [Task -> Source] /\ pc' \in [Task -> Label]
    BY <1>1, <1>3, <1>4, <1>7, Sources DEF State, Label
  <2> QED BY <1>1, <1>2, <1>3, <1>4, <1>7, <1>8, <1>9, <2>1 DEF TypeOK
<1>11. ReadyMask'
  BY <1>3, <1>4, <1>7, <1>8 DEF ReadyMask
<1>12. Labels'
  BY <1>4, <1>8 DEF Labels
<1>13. Waking'
  BY <1>1, <1>3, <1>8, <1>10, <1>11, <1>12, WakingFrame
<1>14. Slots'
  BY <1>1, <1>2, <1>3, <1>8, SlotsFrame
<1>15. Semaphores'
  BY <1>1, <1>2, <1>3, <1>8, SemaphoresFrame
<1>16. Callers'
  <2>1. \A u \in User : state'[u] = state[u] /\ pending'[u] = pending[u] /\ pc'[u] = pc[u]
    BY <1>8
  <2>2. \A u \in Task : state'[u] = "dead" => callers'[u] = <<>>
    BY <1>3, <1>4, <1>8 DEF Callers
  <2> QED BY <1>4, <1>9, <2>1, <2>2 DEF Callers
<1>17. Service'
  <2>1. src'[System] = c /\ msg'[System] = m /\ pc'[c] = pc[c] /\ arg'[c] = arg[c]
    BY <1>1, <1>3, <1>7, <1>8 DEF c, m
  <2>2. /\ state'[c] = "ready" /\ state'[System] = "sending" /\ pc'[System] = "recv"
        /\ pending'[System] = c
    BY <1>3, <1>8
  <2> QED BY <1>3, <2>1, <2>2 DEF Service, Answers
<1>18. Clients'
  <2>1. \A u \in User : /\ state'[u] = state[u] /\ pending'[u] = pending[u] /\ pc'[u] = pc[u]
    BY <1>8
  <2>2. state'[System] = "sending" /\ src'[System] = c /\ src' = src
    BY <1>7, <1>8 DEF c
  <2> QED BY <1>1, <1>3, <1>4, <1>5, <1>8, <2>1, <2>2 DEF Clients, Asks
<1> QED BY <1>10, <1>11, <1>12, <1>13, <1>14, <1>15, <1>16, <1>17, <1>18 DEF IInv

LEMMA SystemStartStep == ASSUME IInv, SystemStart PROVE IInv'
<1> USE Constants
<1> DEFINE c == src[System]
           n == msg[System].tasknr
<1>1. /\ active = System /\ pc[System] = "handle" /\ msg[System].code = "start"
      /\ UNCHANGED <<active, pending, src, itask, chain, ticking, sem_queue, wake_count,
                     arg, loaded>>
  BY DEF SystemStart, At
<1>2. /\ state[System] = "ready" /\ System \in ready /\ state[Idle] = "ready"
      /\ c \in User /\ c # System /\ c \in Task /\ state[c] = "ready" /\ Asks(c, msg[System])
      /\ \A u \in User : pc[u] \in {"sta", "ext"} /\ state[u] = "ready" => u = c
  BY <1>1, Serving
<1>3. /\ TypeOK /\ Callers /\ Labels /\ Service /\ Clients /\ ReadyMask
      /\ pc \in [Task -> Label] /\ state \in [Task -> State] /\ src \in [Task -> Source]
      /\ msg \in [Task -> Message] /\ pending \in [Task -> Source]
      /\ overrun \in [Task -> Char] /\ ready \subseteq Task
      /\ intr \in [Task -> Slot \cup {0}] /\ callers \in [Task -> Seq(Task)]
  BY DEF IInv, TypeOK
<1>4. pc[c] = "sta" /\ n = arg[c] /\ n \in Task
  <2>1. msg[System] \in Message
    BY <1>3
  <2> QED BY <1>1, <1>2, <2>1, MessageTypes DEF Asks
<1>5. PICK code \in {"ok", "fail"} :
        /\ msg' = [msg EXCEPT ![System].code = code]
        /\ \/ /\ code = "ok" /\ state[n] = "dead"
              /\ callers' = [callers EXCEPT ![n] = <<>>]
              /\ intr' = [intr EXCEPT ![n] = 0]
              /\ state' = [state EXCEPT ![n] = "ready"]
              /\ ready' = ready \cup {n}
              /\ overrun' = [overrun EXCEPT ![n] = 0]
              /\ pc' = [pc EXCEPT ![n] = "run", ![System] = "reply"]
           \/ /\ pc' = [pc EXCEPT ![System] = "reply"]
              /\ UNCHANGED <<callers, intr, state, ready, overrun>>
  BY DEF SystemStart, Goto
<1> HIDE DEF c, n
<1>6. /\ msg' \in [Task -> Message] /\ \A u \in Task : u # System => msg'[u] = msg[u]
      /\ msg'[System].code = code /\ msg'[System].tasknr = msg[System].tasknr
  <2> DEFINE old == msg[System]
             new == [old EXCEPT !.code = code]
  <2>1. old \in Message /\ msg' = [msg EXCEPT ![System] = new]
    BY <1>3, <1>5
  <2> HIDE DEF old
  <2>2. new \in Message /\ new.code = code /\ new.tasknr = old.tasknr
    BY <2>1 DEF Message
  <2> HIDE DEF new
  <2> QED BY <1>3, <2>1, <2>2 DEF old
<1>7. Answers(c, msg[System])'
  <2>1. pc'[c] = "sta"
    BY <1>2, <1>3, <1>4, <1>5
  <2>2. msg'[System].tasknr = arg[c]
    BY <1>4, <1>6 DEF n
  <2> QED BY <1>1, <1>6, <2>1, <2>2 DEF Answers, c
<1>8. CASE state[n] # "dead" \/ state' = state
  <2>1. /\ pc' = [pc EXCEPT ![System] = "reply"] /\ callers' = callers /\ intr' = intr
        /\ state' = state /\ ready' = ready /\ overrun' = overrun
    <3>1. state[n] # "dead" \/ state'[n] = "dead"
      BY <1>8
    <3>2. state'[n] = "dead" => state' # [state EXCEPT ![n] = "ready"]
      BY <1>3, <1>4
    <3> QED BY <1>5, <1>8, <3>1, <3>2
  <2>2. pc' \in [Task -> Label] /\ \A u \in Task : pc'[u] = IF u = System THEN "reply" ELSE pc[u]
    BY <1>3, <2>1 DEF Label
  <2>3. TypeOK' /\ ReadyMask'
    BY <1>1, <1>3, <1>6, <2>1, <2>2 DEF TypeOK, ReadyMask
  <2>4. Labels'
    BY <1>3, <2>1, <2>2 DEF Labels
  <2>5. Waking'
    BY <1>1, <2>1, <2>2, <2>3, <2>4, WakingFrame
  <2>6. Slots'
    BY <1>1, <2>1, <2>2, SlotsFrame
  <2>7. Semaphores'
    BY <1>1, <1>2, <2>1, <2>2, SemaphoresFrame
  <2>8. Callers'
    BY <1>1, <1>3, <2>1, <2>2 DEF Callers, CallersAreSending
  <2>9. Service'
    BY <1>1, <1>2, <1>7, <2>1, <2>2 DEF Service, c
  <2>10. Clients'
    BY <1>1, <1>2, <1>3, <1>4, <1>6, <2>1, <2>2 DEF Clients, Asks, c
  <2> QED BY <2>3, <2>4, <2>5, <2>6, <2>7, <2>8, <2>9, <2>10 DEF IInv
<1>9. CASE state[n] = "dead" /\ state' # state
  <2>1. /\ callers' = [callers EXCEPT ![n] = <<>>]
        /\ intr' = [intr EXCEPT ![n] = 0] /\ state' = [state EXCEPT ![n] = "ready"]
        /\ ready' = ready \cup {n} /\ overrun' = [overrun EXCEPT ![n] = 0]
        /\ pc' = [pc EXCEPT ![n] = "run", ![System] = "reply"]
    BY <1>5, <1>9
  <2>2. n \in User /\ n # c /\ n # System /\ callers[n] = <<>> /\ pc[n] \in {"run", "ext"}
    <3>1. n \in User /\ n # c /\ n # System
      BY <1>2, <1>4, <1>9
    <3>2. pc[n] \in {"run", "ext"}
      BY <1>3, <1>4, <1>9, <3>1 DEF Labels, Label
    <3> QED BY <1>3, <1>4, <1>9, <3>1, <3>2 DEF Callers
  <2>3. /\ callers' = callers
        /\ \A u \in Task : /\ state'[u] = IF u = n THEN "ready" ELSE state[u]
                           /\ pc'[u] = IF u = n THEN "run" ELSE IF u = System THEN "reply" ELSE pc[u]
                           /\ intr'[u] = IF u = n THEN 0 ELSE intr[u]
    BY <1>3, <1>4, <2>1, <2>2
  <2>4. TypeOK'
    <3>1. /\ intr' \in [Task -> Slot \cup {0}] /\ state' \in [Task -> State]
          /\ pc' \in [Task -> Label] /\ overrun' \in [Task -> Char]
      BY <1>3, <1>4, <2>1, Sources DEF State, Label
    <3> QED BY <1>1, <1>3, <1>4, <1>6, <2>1, <2>3, <3>1 DEF TypeOK
  <2>5. ReadyMask'
    BY <1>1, <1>2, <1>3, <2>1, <2>3 DEF ReadyMask
  <2>6. Labels'
    BY <1>3, <2>2, <2>3 DEF Labels
  <2>7. Waking'
    BY <1>1, <1>9, <2>2, <2>3, <2>4, <2>5, <2>6, WakingFrame
  <2>8. Slots'
    <3>1. /\ Slots /\ chain \subseteq Slot /\ \A s \in Slot : itask[s].tasknr \in Task
      BY DEF IInv, TypeOK
    <3>2. \A s \in chain : itask[s].tasknr # n
      BY <1>9, <3>1 DEF Slots, ChainIsWaiting
    <3>3. ChainIsWaiting'
      <4>1. ASSUME NEW s \in chain
            PROVE  state'[itask[s].tasknr] = "wait_vbl" /\ intr'[itask[s].tasknr] = s
        <5>1. itask[s].tasknr \in Task /\ itask[s].tasknr # n
          BY <3>1, <3>2
        <5>2. state[itask[s].tasknr] = "wait_vbl" /\ intr[itask[s].tasknr] = s
          BY <3>1 DEF Slots, ChainIsWaiting
        <5> QED BY <2>3, <5>1, <5>2
      <4>2. ASSUME NEW u \in Task, state'[u] = "wait_vbl"
            PROVE  intr'[u] \in chain /\ itask[intr'[u]].tasknr = u
        BY <2>3, <3>1, <4>2 DEF Slots, ChainIsWaiting
      <4> QED BY <1>1, <4>1, <4>2 DEF ChainIsWaiting
    <3>4. SlotOwner'
      BY <1>1, <2>3, <3>1 DEF Slots, SlotOwner
    <3>5. intr'[System] = 0 /\ intr'[Idle] = 0
      BY <2>3, <3>1 DEF Slots
    <3>6. \A u \in User : u # n => pc'[u] = pc[u] /\ intr'[u] = intr[u]
      BY <2>3
    <3>7. pc'[n] = "run"
      BY <2>2, <2>3
    <3> QED BY <1>1, <3>1, <3>3, <3>4, <3>5, <3>6, <3>7 DEF Slots
  <2>9. Semaphores'
    BY <1>1, <1>2, <1>3, <1>9, <2>2, <2>3, SemaphoresFrame DEF Labels
  <2>10. Callers'
    <3>1. \A u \in Task : /\ state'[u] = "sending" <=> state[u] = "sending"
                          /\ state[u] = "sending" => u # n
                          /\ state'[u] = "dead" => state[u] = "dead"
      BY <1>9, <2>3
    <3> QED BY <1>1, <1>3, <2>3, <3>1 DEF Callers, CallersAreSending
  <2>11. Service'
    BY <1>1, <1>2, <1>7, <2>2, <2>3 DEF Service, c
  <2>12. Clients'
    <3>1. ASSUME NEW u \in User, u # n
          PROVE  /\ pc'[u] = pc[u] /\ state'[u] = state[u] /\ msg'[u] = msg[u]
                 /\ src'[u] = src[u] /\ arg'[u] = arg[u] /\ pending'[u] = pending[u]
      BY <1>1, <1>6, <2>3, <3>1
    <3>2. pc'[n] = "run" /\ state'[n] = "ready" /\ src'[System] = c
      BY <1>1, <2>2, <2>3 DEF c
    <3>3. pc'[System] = "reply" /\ state'[System] = "ready"
      BY <1>2, <2>2, <2>3
    <3>4. ASSUME NEW u \in User, u # n, pc[u] \in {"sta", "ext"}, state[u] = "ready"
          PROVE  u = c /\ pc[u] = "sta"
      BY <1>2, <1>4, <3>4
    <3> QED BY <1>3, <3>1, <3>2, <3>3, <3>4 DEF Clients, Asks
  <2> QED BY <2>4, <2>5, <2>6, <2>7, <2>8, <2>9, <2>10, <2>11, <2>12 DEF IInv
<1> QED BY <1>8, <1>9

\* Nobody is queued on a task that ends, because nobody sends to it.
LEMMA NobodyCallsQuitters ==
  ASSUME IInv, Discipline, active = System, NEW c \in Quitters, c \in User
  PROVE  callers[c] = <<>>
<1> USE Constants
<1>1. callers[c] \in Seq(Task) /\ Callers /\ System \notin {c}
  BY DEF IInv, TypeOK
<1>2. ASSUME NEW u \in Task PROVE ~Contains(callers[c], u)
  <2> SUFFICES ASSUME state[u] = "sending", pending[u] = c PROVE FALSE
    BY <1>1 DEF Callers, CallersAreSending
  <2>1. u \in User
    BY Serving
  <2>2. <<u, c>> \in Sends
    BY <1>1, <2>1 DEF Callers
  <2> QED BY <2>2 DEF Discipline
<1>3. DOMAIN callers[c] = 1 .. Len(callers[c]) /\ Len(callers[c]) \in Nat
  BY <1>1, LenProperties
<1>4. Len(callers[c]) > 0 => callers[c][1] \in Task /\ Contains(callers[c], callers[c][1])
  BY <1>1, <1>3, ElementOfSeq DEF Contains
<1>5. Len(callers[c]) = 0
  <2>1. ~(Len(callers[c]) > 0)
    BY <1>2, <1>4
  <2> QED BY <1>3, <2>1
<1> QED BY <1>1, <1>5, EmptySeq

LEMMA SystemExitStep == ASSUME IInv, Discipline, SystemExit PROVE IInv'
<1> USE Constants
<1> DEFINE c == src[System]
<1>1. /\ active = System /\ pc[System] = "handle" /\ msg[System].code = "exit"
      /\ state' = [state EXCEPT ![c] = "dead"] /\ ready' = ready \ {c}
      /\ itask' = [s \in Slot |-> IF s = intr[c] THEN [itask[s] EXCEPT !.tasknr = System]
                                  ELSE itask[s]]
      /\ pc' = [pc EXCEPT ![System] = "recv"]
      /\ UNCHANGED <<active, callers, pending, src, msg, overrun, intr, chain, ticking,
                     sem_queue, wake_count, arg, loaded>>
  BY DEF SystemExit, At, Goto, Unready, linkVars
<1>2. /\ state[System] = "ready" /\ System \in ready /\ state[Idle] = "ready"
      /\ c \in User /\ c # System /\ c # Idle /\ c \in Task /\ state[c] = "ready"
      /\ Asks(c, msg[System])
      /\ \A u \in User : pc[u] \in {"sta", "ext"} /\ state[u] = "ready" => u = c
  BY <1>1, Serving
<1>3. /\ TypeOK /\ Callers /\ Labels /\ Service /\ Clients /\ ReadyMask
      /\ pc \in [Task -> Label] /\ state \in [Task -> State] /\ ready \subseteq Task
      /\ \A u \in Task : intr[u] \in Slot \cup {0}
  BY DEF IInv, TypeOK
<1>4. pc[c] = "ext" /\ c \in Quitters
  BY <1>1, <1>2, <1>3 DEF Asks, Labels
<1>5. callers[c] = <<>>
  BY <1>1, <1>2, <1>4, NobodyCallsQuitters
<1> HIDE DEF c
<1>6. \A u \in Task : /\ state'[u] = IF u = c THEN "dead" ELSE state[u]
                      /\ pc'[u] = IF u = System THEN "recv" ELSE pc[u]
  BY <1>1, <1>3
<1>7. /\ itask' \in [Slot -> [tasknr : Task, age : 0 .. MaxAge, due : 0 .. MaxCount]]
      /\ \A s \in Slot : itask'[s].tasknr = IF s = intr[c] THEN System ELSE itask[s].tasknr
  <2> DEFINE e(s) == IF s = intr[c] THEN [itask[s] EXCEPT !.tasknr = System] ELSE itask[s]
  <2>1. itask' = [s \in Slot |-> e(s)]
    BY <1>1
  <2>2. ASSUME NEW s \in Slot
        PROVE  /\ e(s) \in [tasknr : Task, age : 0 .. MaxAge, due : 0 .. MaxCount]
               /\ e(s).tasknr = IF s = intr[c] THEN System ELSE itask[s].tasknr
    <3>1. itask[s] \in [tasknr : Task, age : 0 .. MaxAge, due : 0 .. MaxCount]
      BY <1>3 DEF TypeOK
    <3> QED BY <3>1
  <2> HIDE DEF e
  <2> QED BY <2>1, <2>2
<1>8. TypeOK'
  <2>1. state' \in [Task -> State] /\ pc' \in [Task -> Label]
    BY <1>1, <1>2, <1>3 DEF State, Label
  <2> QED BY <1>1, <1>3, <1>7, <2>1 DEF TypeOK
<1>9. ReadyMask'
  BY <1>1, <1>2, <1>3, <1>6 DEF ReadyMask
<1>10. Labels'
  BY <1>2, <1>3, <1>4, <1>6 DEF Labels
<1>11. Waking'
  BY <1>1, <1>2, <1>4, <1>6, <1>8, <1>9, <1>10, WakingFrame
<1>12. Slots'
  <2>1. Slots /\ chain \subseteq Slot /\ \A s \in Slot : itask[s].tasknr \in Task
    BY <1>3 DEF IInv, TypeOK
  <2>2. intr[c] # 0 => itask[intr[c]].tasknr = c
    BY <1>2, <1>4, <2>1 DEF Slots, SlotOwner
  <2>3. intr[c] \notin chain
    <3>1. intr[c] # 0 => state[itask[intr[c]].tasknr] # "wait_vbl"
      BY <1>2, <2>2
    <3>2. \A s \in chain : state[itask[s].tasknr] = "wait_vbl" /\ s # 0
      BY <2>1 DEF Slots, ChainIsWaiting, Slot
    <3> QED BY <3>1, <3>2
  <2>4. \A u \in User : u # c /\ state[u] # "dead" /\ intr[u] # 0 /\ pc[u] # "vsync"
                          => intr[u] # intr[c]
    BY <2>1, <2>2 DEF Slots, SlotOwner
  <2>5. SlotOwner'
    <3>1. ASSUME NEW u \in User, state'[u] # "dead", intr[u] # 0, pc'[u] # "vsync"
          PROVE  itask'[intr[u]].tasknr = u
      <4>1. u # c /\ state[u] # "dead" /\ pc[u] # "vsync" /\ intr[u] \in Slot
        BY <1>2, <1>3, <1>6, <3>1
      <4>2. itask[intr[u]].tasknr = u /\ intr[u] # intr[c]
        BY <2>1, <2>4, <3>1, <4>1 DEF Slots, SlotOwner
      <4> QED BY <1>7, <4>1, <4>2
    <3> QED BY <1>1, <3>1 DEF SlotOwner
  <2>6. ASSUME NEW s \in chain
        PROVE  state'[itask'[s].tasknr] = "wait_vbl" /\ intr[itask'[s].tasknr] = s
    <3>1. itask'[s].tasknr = itask[s].tasknr /\ itask[s].tasknr \in Task
      BY <1>7, <2>1, <2>3
    <3>2. state[itask[s].tasknr] = "wait_vbl" /\ intr[itask[s].tasknr] = s
      BY <2>1 DEF Slots, ChainIsWaiting
    <3> QED BY <1>2, <1>6, <3>1, <3>2
  <2>7. ASSUME NEW u \in Task, state'[u] = "wait_vbl"
        PROVE  intr[u] \in chain /\ itask'[intr[u]].tasknr = u
    <3>1. state[u] = "wait_vbl"
      BY <1>6, <2>7
    <3>2. intr[u] \in chain /\ itask[intr[u]].tasknr = u
      BY <2>1, <3>1 DEF Slots, ChainIsWaiting
    <3> QED BY <1>7, <2>1, <2>3, <3>2
  <2>8. ChainIsWaiting'
    BY <1>1, <2>6, <2>7 DEF ChainIsWaiting
  <2>9. ASSUME NEW u \in User, pc'[u] = "vsync"
        PROVE  /\ pc[u] = "vsync" /\ intr[u] # 0 /\ intr[u] \notin chain
               /\ itask'[intr[u]].tasknr = System
    <3>1. pc[u] = "vsync"
      BY <1>6, <2>9
    <3>2. intr[u] # 0 /\ intr[u] \notin chain /\ itask[intr[u]].tasknr = System
      BY <2>1, <3>1 DEF Slots
    <3>3. intr[u] \in Slot
      BY <1>3, <3>2
    <3> QED BY <1>7, <3>1, <3>2, <3>3
  <2>10. \A u \in User : pc'[u] = "vbl" => pc[u] = "vbl"
    BY <1>6
  <2> QED BY <1>1, <2>1, <2>5, <2>8, <2>9, <2>10 DEF Slots
<1>13. Semaphores'
  BY <1>1, <1>2, <1>6, SemaphoresFrame
<1>14. Callers'
  <2>1. \A u \in Task : /\ state'[u] = "sending" <=> state[u] = "sending"
                        /\ state[u] = "sending" => pc'[u] = pc[u]
                        /\ state'[u] = "dead" <=> state[u] = "dead" \/ u = c
    BY <1>2, <1>6
  <2> QED BY <1>1, <1>3, <1>5, <2>1 DEF Callers, CallersAreSending
<1>15. state'[System] = "ready" /\ pc'[System] = "recv"
  BY <1>2, <1>6
<1>16. Service'
  BY <1>1, <1>15 DEF Service
<1>17. Clients'
  <2>1. ASSUME NEW u \in User
        PROVE  pc'[u] = pc[u] /\ (state'[u] = state[u] \/ (u = c /\ state'[u] = "dead"))
    BY <1>6
  <2> QED BY <1>1, <1>2, <1>3, <1>4, <1>15, <2>1 DEF Clients, Asks
<1> QED BY <1>8, <1>9, <1>10, <1>11, <1>12, <1>13, <1>14, <1>16, <1>17 DEF IInv

-----------------------------------------------------------------------------
(* The invariant. *)

\* mts_boot establishes the invariant.
LEMMA InitInvariant == ASSUME Init PROVE IInv
<1> USE Constants
<1>1. BootTask \in User /\ BootTask \in Task
  BY SizeAssumption
<1>2. /\ \A t \in Task : /\ state[t] = IF t \in {System, BootTask, Idle} THEN "ready" ELSE "dead"
                         /\ pc[t] = IF t = Idle THEN "idle" ELSE IF t = System THEN "recv" ELSE "run"
                         /\ callers[t] = <<>> /\ intr[t] = 0 /\ arg[t] = 0
      /\ \A n \in Sem : sem_queue[n] = <<>>
      /\ chain = {} /\ active = System /\ ready = {System, BootTask, Idle}
      /\ state \in [Task -> State] /\ pc \in [Task -> Label]
  BY DEF Init, State, Label
<1>3. \A x : ~Contains(<<>>, x)
  BY DEF Contains
<1>4. IsInjective(<<>>) /\ <<>> \in Seq(Task)
  BY DEF IsInjective
<1>5. TypeOK
  <2>1. /\ callers \in [Task -> Seq(Task)] /\ sem_queue \in [Sem -> Seq(Task)]
    BY <1>4 DEF Init
  <2>2. 0 \in Source /\ 0 \in Char /\ 0 \in Task
    BY Sources DEF System
  <2>3. [tasknr |-> 0, age |-> 0, due |-> 0]
          \in [tasknr : Task, age : 0 .. MaxAge, due : 0 .. MaxCount]
    BY <2>2, SizeAssumption DEF MaxAge
  <2>4. itask \in [Slot -> [tasknr : Task, age : 0 .. MaxAge, due : 0 .. MaxCount]]
    BY <2>3 DEF Init
  <2>5. NoMessage \in Message
    BY <2>2 DEF NoMessage, Message
  <2>6. msg \in [Task -> Message] /\ arg \in [Task -> Task \cup Sem]
    BY <2>2, <2>5 DEF Init
  <2>7. /\ pending \in [Task -> Source] /\ src \in [Task -> Source]
        /\ wake_count \in [Task -> Char] /\ overrun \in [Task -> Char] /\ loaded \in [Task -> Char]
        /\ intr \in [Task -> Slot \cup {0}] /\ ticking \in BOOLEAN
    BY <2>2 DEF Init
  <2> QED BY <1>1, <1>2, <2>1, <2>4, <2>6, <2>7 DEF TypeOK
<1>6. ReadyMask
  BY <1>1, <1>2 DEF ReadyMask
<1>7. Labels
  BY <1>1, <1>2 DEF Labels
<1>8. Waking
  BY <1>1, <1>2 DEF Waking
<1>9. Semaphores
  <2>1. \A t \in Task : pc[t] # "sem"
    BY <1>2
  <2>2. DOMAIN <<>> = {}
    OBVIOUS
  <2> QED BY <1>2, <1>3, <1>4, <2>1, <2>2 DEF Semaphores, SemWaiters
<1>10. Slots
  BY <1>1, <1>2 DEF Slots, SlotOwner, ChainIsWaiting
<1>11. Callers
  BY <1>1, <1>2, <1>3, <1>4 DEF Callers, CallersAreSending
<1>12. Service
  BY <1>1, <1>2 DEF Service
<1>13. Clients
  BY <1>1, <1>2 DEF Clients
<1> QED BY <1>5, <1>6, <1>7, <1>8, <1>9, <1>10, <1>11, <1>12, <1>13 DEF IInv

\* A step that changes nothing.
LEMMA StutterStep == ASSUME IInv, UNCHANGED vars PROVE IInv'
<1>1. UNCHANGED <<active, ready, state, callers, pending, src, msg, overrun, intr, itask, chain,
                  ticking, sem_queue, wake_count, pc, arg, loaded>>
  BY DEF vars
<1>2. overrun' \in [Task -> Char]
  BY <1>1 DEF IInv, TypeOK
<1> QED BY <1>1, <1>2, CountStep

\* Every step of the kernel preserves it.
LEMMA NextInvariant == ASSUME IInv, Discipline, [Next]_vars PROVE IInv'
<1>1. CASE UNCHANGED vars
  BY <1>1, StutterStep
<1>2. ASSUME NEW t \in User, Call(t) PROVE IInv'
  BY <1>2, UserSendStep, UserReceiveStep, ResetInterruptWaitStep, SleepStep, WakeTestStep,
     InitVsyncStep, SetVsyncTaskStep, WaitVblStep, LockSemStep, StartTaskStep, ExitTaskStep
     DEF Call
<1>3. ASSUME NEW t \in User, Continue(t) PROVE IInv'
  BY <1>3, WakeSleeperStep, WakeCountStep, FillSlotStep, JoinChainStep, UnlockSemStep,
     AwaitStartStep, StartReturnsStep DEF Continue
<1>4. ASSUME SystemStep PROVE IInv'
  BY <1>4, SystemReceiveStep, SystemStartStep, SystemExitStep, SystemReplyStep DEF SystemStep
<1>5. CASE VSync
  BY <1>5, VSyncStep
<1>6. ASSUME NEW d \in User, ISend(d) PROVE IInv'
  BY <1>6, ISendStep
<1> QED BY <1>1, <1>2, <1>3, <1>4, <1>5, <1>6 DEF Next

\* The inductive invariant holds of every program that keeps the discipline.
THEOREM Invariant == ASSUME Discipline PROVE Spec => []IInv
<1>1. Init => IInv
  BY InitInvariant
<1>2. IInv /\ [Next]_vars => IInv'
  BY NextInvariant
<1> QED BY <1>1, <1>2, PTL DEF Spec

-----------------------------------------------------------------------------
(* The theorems. *)

\* No field of the kernel leaves its type: a slot index is a slot, a queued caller a task.
THEOREM TypesHold == ASSUME Discipline PROVE Spec => []TypeOK
<1>1. IInv => TypeOK
  BY DEF IInv
<1> QED BY <1>1, Invariant, PTL

\* mts_FindFirstReadyTask picks from a mask that agrees with the task states.
THEOREM ReadyMaskHolds == ASSUME Discipline PROVE Spec => []ReadyMask
<1>1. IInv => ReadyMask
  BY DEF IInv
<1> QED BY <1>1, Invariant, PTL

\* The senders a receiver walks are the tasks blocked sending to it, each once.
THEOREM CallersHold == ASSUME Discipline PROVE Spec => []CallersAreSending
<1>1. IInv => CallersAreSending
  BY DEF IInv, Callers
<1> QED BY <1>1, Invariant, PTL

\* Between the test of mts_wup_tsk and its critical section the target stays asleep or
\* READY, so the wake-up ends no other wait.
THEOREM WakesSleepersHolds == ASSUME Discipline PROVE Spec => []WakesSleepers
<1>1. IInv => WakesSleepers
  BY DEF IInv, Waking, WakesSleepers
<1> QED BY <1>1, Invariant, PTL

\* The count of a READY target is stored while the target is still READY.
THEOREM CountsReadyHolds == ASSUME Discipline PROVE Spec => []CountsReady
<1>1. IInv => CountsReady
  BY DEF IInv, Waking, CountsReady
<1> QED BY <1>1, Invariant, PTL

\* No two tasks share a vblank slot.
THEOREM SlotOwnerHolds == ASSUME Discipline PROVE Spec => []SlotOwner
<1>1. IInv => SlotOwner
  BY DEF IInv, Slots
<1> QED BY <1>1, Invariant, PTL

\* The chain VSync walks holds the slots of the tasks that wait, and no other.
THEOREM ChainHolds == ASSUME Discipline PROVE Spec => []ChainIsWaiting
<1>1. IInv => ChainIsWaiting
  BY DEF IInv, Slots
<1> QED BY <1>1, Invariant, PTL

\* A semaphore's queue is its holder and then the tasks PENDING on it.
THEOREM SemWaitersHolds == ASSUME Discipline PROVE Spec => []SemWaiters
<1>1. IInv => SemWaiters
  BY DEF IInv, Semaphores
<1> QED BY <1>1, Invariant, PTL

\* One task at a time is between mts_lock_sem and mts_unlock_sem: two that are not
\* PENDING would both be first in the queue.
THEOREM SemMutexHolds == ASSUME Discipline PROVE Spec => []SemMutex
<1> USE Constants
<1>1. ASSUME IInv PROVE SemMutex
  <2> SUFFICES ASSUME NEW t \in User, NEW u \in User, NEW n \in Sem, HoldsSem(t, n), HoldsSem(u, n)
               PROVE  t = u
    BY DEF SemMutex
  <2>1. /\ sem_queue[n] \in Seq(Task)
        /\ \A v \in Task : Contains(sem_queue[n], v) <=> pc[v] = "sem" /\ arg[v] = n
        /\ \A i \in DOMAIN sem_queue[n] : state[sem_queue[n][i]] = "pending" <=> i > 1
    BY <1>1 DEF IInv, TypeOK, Semaphores, SemWaiters
  <2>2. DOMAIN sem_queue[n] = 1 .. Len(sem_queue[n]) /\ Len(sem_queue[n]) \in Nat
    BY <2>1, LenProperties
  <2>3. ASSUME NEW v \in User, HoldsSem(v, n) PROVE v = sem_queue[n][1]
    <3>1. Contains(sem_queue[n], v) /\ state[v] # "pending"
      BY <2>1, <2>3 DEF HoldsSem
    <3>2. PICK i \in 1 .. Len(sem_queue[n]) : sem_queue[n][i] = v
      BY <2>2, <3>1 DEF Contains
    <3>3. ~(i > 1)
      BY <2>1, <2>2, <3>1, <3>2
    <3>4. i = 1
      BY <2>2, <3>3
    <3> QED BY <3>2, <3>4
  <2> QED BY <2>3
<1>2. IInv => SemMutex
  BY <1>1
<1> QED BY <1>2, Invariant, PTL

\* The system task serves a user task that is blocked on the very request it holds, and
\* ends only tasks nobody is queued on.
THEOREM ServesClientHolds == ASSUME Discipline PROVE Spec => []ServesClient
<1>1. ASSUME IInv PROVE ServesClient
  <2> SUFFICES ASSUME active = System, pc[System] = "handle"
               PROVE  /\ src[System] \in User
                      /\ msg[System].code = "start" => pc[src[System]] = "sta"
                      /\ msg[System].code = "exit" => /\ pc[src[System]] = "ext"
                                                      /\ callers[src[System]] = <<>>
    BY DEF ServesClient
  <2>1. src[System] \in User /\ Asks(src[System], msg[System])
    BY <1>1, Serving
  <2>2. pc[src[System]] = "ext" => src[System] \in Quitters
    BY <1>1, <2>1 DEF IInv, Labels
  <2>3. pc[src[System]] = "ext" => callers[src[System]] = <<>>
    BY <1>1, <2>1, <2>2, NobodyCallsQuitters
  <2> QED BY <2>1, <2>3 DEF Asks
<1>2. IInv => ServesClient
  BY <1>1
<1> QED BY <1>2, Invariant, PTL

\* mts_sta_tsk returns with the answer to its own request, from the system task.
THEOREM StartAnsweredHolds == ASSUME Discipline PROVE Spec => []StartAnswered
<1>1. IInv => StartAnswered
  BY DEF IInv, Clients, StartAnswered
<1> QED BY <1>1, Invariant, PTL

\* A task that asked to end does not run again.
THEOREM ExitIsFinalHolds == ASSUME Discipline PROVE Spec => []ExitIsFinal
<1>1. ASSUME IInv PROVE ExitIsFinal
  <2> SUFFICES ASSUME NEW t \in User, pc[t] = "ext", active = t PROVE FALSE
    BY DEF ExitIsFinal
  <2>1. state[t] = "ready" /\ state[System] # "ready"
    BY <1>1, Running
  <2> QED BY <1>1, <2>1 DEF IInv, Clients
<1>2. IInv => ExitIsFinal
  BY <1>1
<1> QED BY <1>2, Invariant, PTL

-----------------------------------------------------------------------------
(* Rendezvous. *)

Waits(d) == state[d] = "receiving" /\ src[d] \notin {INTR, INTR2}

\* A receiver that goes on waiting for the same sender, its queue as it was.
LEMMA RendezvousFrame ==
  ASSUME NoMissedRendezvous,
         \A d \in Task : Waits(d)' => Waits(d) /\ src'[d] = src[d] /\ callers'[d] = callers[d]
  PROVE  NoMissedRendezvous'
<1> SUFFICES ASSUME NEW d \in Task, Waits(d)' PROVE SendersFor(d, src[d])' = {}
  BY DEF NoMissedRendezvous, Waits
<1>1. Waits(d) /\ src'[d] = src[d] /\ callers'[d] = callers[d]
  OBVIOUS
<1>2. SendersFor(d, src[d]) = {}
  BY <1>1 DEF NoMissedRendezvous, Waits
<1> QED BY <1>1, <1>2 DEF SendersFor, Acceptable

\* A sender queues only on a receiver that would not take it.
LEMMA SendRendezvous ==
  ASSUME IInv, NoMissedRendezvous, NEW t \in Task, NEW d \in Task, NEW m, Send(t, d, m),
         state[t] # "receiving"
  PROVE  NoMissedRendezvous'
<1>1. /\ callers \in [Task -> Seq(Task)] /\ state \in [Task -> State]
      /\ src \in [Task -> Source]
  BY DEF IInv, TypeOK
<1>2. CASE SendDirect(t, d, m)
  <2>1. \A u \in Task : Waits(u)' => Waits(u) /\ src'[u] = src[u] /\ callers'[u] = callers[u]
    BY <1>1, <1>2 DEF SendDirect, Waits
  <2> QED BY <2>1, RendezvousFrame
<1>3. CASE SendQueued(t, d, m)
  <2>1. /\ \A u \in Task : /\ Waits(u)' => Waits(u) /\ src'[u] = src[u]
                           /\ u # d => callers'[u] = callers[u]
        /\ callers'[d] = Append(callers[d], t)
    BY <1>1, <1>3 DEF SendQueued, Waits
  <2> SUFFICES ASSUME NEW u \in Task, Waits(u)' PROVE SendersFor(u, src[u])' = {}
    BY DEF NoMissedRendezvous, Waits
  <2>2. Waits(u) /\ src'[u] = src[u] /\ SendersFor(u, src[u]) = {}
    BY <2>1 DEF NoMissedRendezvous, Waits
  <2>3. CASE u # d
    BY <2>1, <2>2, <2>3 DEF SendersFor, Acceptable
  <2>4. CASE u = d
    <3> DEFINE q == callers[d]
               r == Append(q, t)
    <3>1. src[d] \notin {ANY, t}
      BY <1>3, <2>2, <2>4 DEF SendQueued, Waits
    <3>2. /\ DOMAIN q = 1 .. Len(q) /\ DOMAIN r = 1 .. Len(q) + 1 /\ Len(q) \in Nat
          /\ \A i \in 1 .. Len(q) : r[i] = q[i]
          /\ r[Len(q) + 1] = t
      BY <1>1, AppendProperties, LenProperties
    <3>3. \A i \in DOMAIN q : src[d] \notin {ANY, q[i]}
      BY <2>2, <2>4 DEF SendersFor, Acceptable
    <3> HIDE DEF q, r
    <3>4. \A i \in DOMAIN r : src[d] \notin {ANY, r[i]}
      BY <3>1, <3>2, <3>3
    <3>5. callers'[u] = r /\ src'[u] = src[d]
      BY <2>1, <2>2, <2>4 DEF r, q
    <3> QED BY <3>4, <3>5 DEF SendersFor, Acceptable
  <2> QED BY <2>3, <2>4
<1> QED BY <1>2, <1>3 DEF Send

\* A receiver blocks only when its queue holds no sender it would take.
LEMMA ReceiveRendezvous ==
  ASSUME IInv, NoMissedRendezvous, NEW t \in Task, NEW s, Receive(t, s),
         state[t] # "receiving"
  PROVE  NoMissedRendezvous'
<1>1. /\ callers \in [Task -> Seq(Task)] /\ state \in [Task -> State]
      /\ src \in [Task -> Source]
  BY DEF IInv, TypeOK
<1>2. CASE ReceiveBlock(t, s) /\ (s \in {INTR, INTR2} \/ Acceptable(t, s) = {})
  <2>1. /\ \A u \in Task : u # t => (Waits(u)' => Waits(u) /\ src'[u] = src[u])
        /\ src'[t] = s /\ callers' = callers
    BY <1>1, <1>2 DEF ReceiveBlock, Waits
  <2> SUFFICES ASSUME NEW u \in Task, Waits(u)' PROVE SendersFor(u, src[u])' = {}
    BY DEF NoMissedRendezvous, Waits
  <2>2. CASE u = t
    BY <1>2, <2>1, <2>2 DEF SendersFor, Acceptable, Waits
  <2>3. CASE u # t
    BY <2>1, <2>3 DEF NoMissedRendezvous, Waits, SendersFor, Acceptable
  <2> QED BY <2>2, <2>3
<1>3. CASE ReceiveOverrun(t)
  <2>1. \A u \in Task : Waits(u)' => Waits(u) /\ src'[u] = src[u] /\ callers'[u] = callers[u]
    BY <1>1, <1>3 DEF ReceiveOverrun, Waits
  <2> QED BY <2>1, RendezvousFrame
<1>4. ASSUME NEW i \in DOMAIN callers[t], ReceiveQueued(t, i) PROVE NoMissedRendezvous'
  <2> DEFINE c == callers[t][i]
  <2>1. /\ src' = [src EXCEPT ![t] = c] /\ state' = [state EXCEPT ![c] = "ready"]
        /\ callers' = [callers EXCEPT ![t] = RemoveAt(@, i)]
    BY <1>4 DEF ReceiveQueued
  <2> HIDE DEF c
  <2>2. \A u \in Task : Waits(u)' => Waits(u) /\ src'[u] = src[u] /\ callers'[u] = callers[u]
    BY <1>1, <2>1 DEF Waits
  <2> QED BY <2>2, RendezvousFrame
<1> QED BY <1>2, <1>3, <1>4 DEF Receive, SendersFor, Acceptable

LEMMA NextRendezvous ==
  ASSUME IInv, NoMissedRendezvous, [Next]_vars PROVE NoMissedRendezvous'
<1> USE Constants
<1>1. /\ callers \in [Task -> Seq(Task)] /\ state \in [Task -> State]
      /\ src \in [Task -> Source]
  BY DEF IInv, TypeOK
<1>2. ASSUME NEW t \in Task, active = t PROVE state[t] # "receiving"
  BY <1>2 DEF IInv, ReadyMask
<1>3. ASSUME src' = src, callers' = callers,
             \A d \in Task : state'[d] = "receiving" => state[d] = "receiving"
      PROVE  NoMissedRendezvous'
  BY <1>3, RendezvousFrame DEF Waits
<1>4. ASSUME NEW t \in User, Call(t) PROVE NoMissedRendezvous'
  <2>0. t \in Task
    OBVIOUS
  <2>1. CASE UserSend(t)
    BY <1>2, <2>0, <2>1, SendRendezvous DEF UserSend, At
  <2>2. CASE UserReceive(t)
    BY <1>2, <2>0, <2>2, ReceiveRendezvous DEF UserReceive, At
  <2>3. CASE ResetInterruptWait(t)
    <3>1. \A d \in Task : Waits(d)' => Waits(d) /\ src'[d] = src[d] /\ callers'[d] = callers[d]
      BY <1>1, <2>3 DEF ResetInterruptWait, Waits
    <3> QED BY <3>1, RendezvousFrame
  <2>4. CASE Sleep(t)
    BY <1>1, <1>3, <2>4 DEF Sleep, linkVars
  <2>5. CASE WakeTest(t) \/ InitVsync(t) \/ SetVsyncTask(t) \/ WaitVbl(t)
    BY <1>3, <2>5 DEF WakeTest, InitVsync, SetVsyncTask, WaitVbl, linkVars
  <2>6. CASE LockSem(t)
    BY <1>1, <1>3, <2>6 DEF LockSem, linkVars
  <2>7. CASE StartTask(t)
    BY <1>2, <2>0, <2>7, SendRendezvous DEF StartTask, At
  <2>8. CASE ExitTask(t)
    BY <1>2, <2>0, <2>8, SendRendezvous DEF ExitTask, At
  <2> QED BY <1>4, <2>1, <2>2, <2>3, <2>4, <2>5, <2>6, <2>7, <2>8 DEF Call
<1>5. ASSUME NEW t \in User, Continue(t) PROVE NoMissedRendezvous'
  <2>0. t \in Task
    OBVIOUS
  <2>1. CASE WakeSleeper(t)
    BY <1>1, <1>3, <2>1 DEF WakeSleeper, linkVars
  <2>2. CASE WakeCount(t) \/ FillSlot(t) \/ StartReturns(t)
    BY <1>3, <2>2 DEF WakeCount, FillSlot, StartReturns, linkVars
  <2>3. CASE JoinChain(t)
    BY <1>1, <1>3, <2>3 DEF JoinChain, linkVars
  <2>4. CASE UnlockSem(t)
    <3>1. state' = state \/ \E w : state' = [state EXCEPT ![w] = "ready"]
      BY <2>4 DEF UnlockSem
    <3>2. src' = src /\ callers' = callers
      BY <2>4 DEF UnlockSem, linkVars
    <3> QED BY <1>1, <1>3, <3>1, <3>2
  <2>5. CASE AwaitStart(t)
    BY <1>2, <2>0, <2>5, ReceiveRendezvous DEF AwaitStart, At
  <2> QED BY <1>5, <2>1, <2>2, <2>3, <2>4, <2>5 DEF Continue
<1>6. ASSUME SystemStep PROVE NoMissedRendezvous'
  <2>1. CASE SystemReceive
    BY <1>2, <2>1, ReceiveRendezvous DEF SystemReceive, At
  <2>2. CASE SystemStart
    <3>1. \/ callers' = callers /\ state' = state
          \/ \E n : /\ callers' = [callers EXCEPT ![n] = <<>>]
                    /\ state' = [state EXCEPT ![n] = "ready"]
      BY <2>2 DEF SystemStart
    <3>2. src' = src
      BY <2>2 DEF SystemStart
    <3>3. \A d \in Task : Waits(d)' => Waits(d) /\ src'[d] = src[d] /\ callers'[d] = callers[d]
      BY <1>1, <3>1, <3>2 DEF Waits
    <3> QED BY <3>3, RendezvousFrame
  <2>3. CASE SystemExit
    BY <1>1, <1>3, <2>3 DEF SystemExit, linkVars
  <2>4. CASE SystemReply
    <3>1. active = System /\ src[System] \in Task
      BY <2>4, Serving DEF SystemReply, At
    <3>2. Send(System, src[System], msg[System]) /\ state[System] # "receiving"
      BY <1>2, <2>4, <3>1 DEF SystemReply
    <3> QED BY <3>1, <3>2, SendRendezvous
  <2> QED BY <1>6, <2>1, <2>2, <2>3, <2>4 DEF SystemStep
<1>7. CASE VSync
  <2>1. src' = src /\ callers' = callers
    BY <1>7 DEF VSync, linkVars
  <2>2. \E woken : state' = [t \in Task |-> IF t \in woken THEN "ready" ELSE state[t]]
    BY <1>7 DEF VSync
  <2> QED BY <1>1, <1>3, <2>1, <2>2
<1>8. ASSUME NEW d \in User, ISend(d) PROVE NoMissedRendezvous'
  <2>1. src' = src /\ callers' = callers
    BY <1>8 DEF ISend
  <2>2. state' = state \/ state' = [state EXCEPT ![d] = "ready"]
    BY <1>8 DEF ISend
  <2> QED BY <1>1, <1>3, <2>1, <2>2
<1>9. CASE UNCHANGED vars
  BY <1>3, <1>9 DEF vars
<1> QED BY <1>4, <1>5, <1>6, <1>7, <1>8, <1>9 DEF Next

\* No task is left blocked in mts_receive while a sender it would accept is blocked on it.
THEOREM RendezvousHolds == ASSUME Discipline PROVE Spec => []NoMissedRendezvous
<1>1. Init => NoMissedRendezvous
  BY DEF Init, NoMissedRendezvous
<1>2. IInv /\ NoMissedRendezvous /\ [Next]_vars => NoMissedRendezvous'
  BY NextRendezvous
<1> QED BY <1>1, <1>2, Invariant, PTL DEF Spec

-----------------------------------------------------------------------------
(* Messages. *)

\* A step that neither sends nor receives wakes no task that does.
LEMMA PlainMessages ==
  ASSUME Payloads, UNCHANGED <<src, msg, pending>>,
         \A u \in Task : /\ (state'[u] = "sending") = (state[u] = "sending")
                         /\ state[u] = "receiving" /\ state'[u] # "receiving" => src[u] \in {INTR, INTR2}
  PROVE  Payloads' /\ FromSender
<1>1. Payloads'
  BY Constants DEF Payloads
<1>2. ASSUME NEW c \in Task, NEW d \in Task PROVE ~Returns(d, c) /\ ~Fetches(d, c)
  <2>1. INTR # c /\ INTR2 # c
    BY Sources
  <2>2. ~Returns(d, c)
    BY <2>1 DEF Returns
  <2>3. ~Fetches(d, c)
    BY DEF Fetches
  <2> QED BY <2>2, <2>3
<1> QED BY <1>1, <1>2 DEF FromSender

LEMMA SendMessages ==
  ASSUME IInv, Payloads, NEW t \in Task, NEW d \in Task, NEW m, Send(t, d, m),
         active = t, state[t] = "ready",
         t \in User /\ d # System => m = [code |-> "data", tasknr |-> t],
         msg'[d] = m => Told(t, d)'
  PROVE  Payloads' /\ FromSender
<1> USE Constants
<1>1. /\ state \in [Task -> State] /\ src \in [Task -> Source] /\ msg \in [Task -> Message]
      /\ pending \in [Task -> Source]
  BY DEF IInv, TypeOK
<1>2. CASE SendDirect(t, d, m)
  <2>1. /\ state[d] = "receiving" /\ pending' = pending /\ src[d] \in {ANY, t}
        /\ \A u \in Task : /\ state'[u] = IF u = d THEN "ready" ELSE state[u]
                           /\ src'[u] = IF u = d THEN t ELSE src[u]
                           /\ u # t => msg'[u] = IF u = d THEN m ELSE msg[u]
    BY <1>1, <1>2 DEF SendDirect
  <2>2. Payloads'
    BY <2>1 DEF Payloads
  <2>3. Told(t, d)'
    BY <2>1
  <2>4. \A u, c \in Task : ~Fetches(u, c) /\ (Returns(u, c) => u = d /\ c = t)
    BY <2>1 DEF Fetches, Returns
  <2>5. FromSender
    BY <2>1, <2>3, <2>4 DEF FromSender
  <2> QED BY <2>2, <2>5
<1>3. CASE SendQueued(t, d, m)
  <2>1. /\ src' = src
        /\ \A u \in Task : /\ state'[u] = IF u = t THEN "sending" ELSE state[u]
                           /\ pending'[u] = IF u = t THEN d ELSE pending[u]
                           /\ msg'[u] = IF u = t THEN m ELSE msg[u]
    BY <1>1, <1>3 DEF SendQueued
  <2>2. Payloads'
    BY <2>1 DEF Payloads
  <2>3. FromSender
    BY <2>1 DEF FromSender, Returns, Fetches
  <2> QED BY <2>2, <2>3
<1> QED BY <1>2, <1>3 DEF Send

\* What a sender that waits has in its buffer is what its receiver is to be told.
LEMMA QueuedTold ==
  ASSUME IInv, Payloads, NEW t \in Task, state[t] = "ready",
         NEW c \in Task, state[c] = "sending", pending[c] = t,
         msg'[t] = msg[c], arg' = arg, pc'[c] = pc[c]
  PROVE  Told(c, t)'
<1> USE Constants
<1>1. CASE c = System
  <2>1. t \in User /\ Answers(t, msg[c])
    BY <1>1 DEF IInv, Service
  <2> QED BY <1>1, <2>1 DEF Told, Answers
<1>2. CASE c # System /\ t = System
  <2>1. c # Idle
    BY DEF IInv, ReadyMask
  <2>2. Asks(c, msg[c])
    BY <1>2, <2>1 DEF IInv, Clients
  <2> QED BY <1>2, <2>2 DEF Told, Asks
<1>3. CASE c # System /\ t # System
  <2>1. c # Idle
    BY DEF IInv, ReadyMask
  <2>2. msg[c] = [code |-> "data", tasknr |-> c]
    BY <1>3, <2>1 DEF Payloads
  <2> QED BY <1>3, <2>2 DEF Told
<1> QED BY <1>1, <1>2, <1>3

LEMMA ReceiveMessages ==
  ASSUME IInv, Payloads, NEW t \in Task, NEW s, Receive(t, s), active = t, state[t] = "ready",
         arg' = arg, \A u \in Task : u # t => pc'[u] = pc[u]
  PROVE  Payloads' /\ FromSender
<1> USE Constants
<1>1. /\ state \in [Task -> State] /\ src \in [Task -> Source] /\ msg \in [Task -> Message]
      /\ pending \in [Task -> Source] /\ callers \in [Task -> Seq(Task)]
  BY DEF IInv, TypeOK
<1>2. \A u \in Task : pending'[u] = IF u = t THEN s ELSE pending[u]
  BY <1>1 DEF Receive
<1>3. CASE ReceiveBlock(t, s)
  <2>1. /\ msg' = msg
        /\ \A u \in Task : /\ state'[u] = IF u = t THEN "receiving" ELSE state[u]
                           /\ u # t => src'[u] = src[u]
    BY <1>1, <1>3 DEF ReceiveBlock
  <2> QED BY <1>2, <2>1 DEF Payloads, FromSender, Returns, Fetches
<1>4. CASE s = INTR2 /\ ReceiveOverrun(t)
  <2>1. msg' = msg /\ state' = state /\ \A u \in Task : u # t => src'[u] = src[u]
    BY <1>1, <1>4 DEF ReceiveOverrun
  <2> QED BY <1>2, <1>4, <2>1 DEF Payloads, FromSender, Returns, Fetches
<1>5. ASSUME NEW i \in Acceptable(t, s), \A j \in Acceptable(t, s) : i <= j, ReceiveQueued(t, i)
      PROVE  Payloads' /\ FromSender
  <2>a. i \in DOMAIN callers[t] /\ s \in {ANY, callers[t][i]}
    BY <1>5 DEF Acceptable
  <2>0. PICK c \in Task : c = callers[t][i] /\ (s = ANY \/ s = c)
    BY <1>1, <2>a, LenProperties, ElementOfSeq
  <2>1. Contains(callers[t], c)
    BY <2>a, <2>0 DEF Contains
  <2>2. state[c] = "sending" /\ pending[c] = t /\ c # t
    BY <2>1 DEF IInv, Callers, CallersAreSending
  <2>3. \A u \in Task : /\ state'[u] = IF u = c THEN "ready" ELSE state[u]
                        /\ src'[u] = IF u = t THEN c ELSE src[u]
                        /\ msg'[u] = IF u = t THEN msg[c] ELSE msg[u]
    BY <1>1, <1>5, <2>0 DEF ReceiveQueued
  <2>4. s = ANY => c = Head(callers[t])
    <3>1. ASSUME s = ANY PROVE i = 1
      <4>1. 1 \in DOMAIN callers[t] /\ i \in 1 .. Len(callers[t]) /\ Len(callers[t]) \in Nat
        BY <1>1, <2>a, LenProperties
      <4>2. 1 \in Acceptable(t, s)
        BY <3>1, <4>1 DEF Acceptable
      <4> QED BY <1>5, <4>1, <4>2
    <3> QED BY <2>0, <3>1 DEF Head
  <2>5. Payloads'
    BY <1>2, <2>3 DEF Payloads
  <2>6. Told(c, t)'
    <3>1. msg'[t] = msg[c] /\ pc'[c] = pc[c]
      BY <2>1, <2>2, <2>3
    <3>2. c \in Task /\ state[c] = "sending" /\ pending[c] = t
      BY <2>1, <2>2
    <3> QED BY <3>1, <3>2, QueuedTold
  <2>7. \A u, v \in Task : ~Returns(u, v) /\ (Fetches(u, v) => u = t /\ v = c)
    BY <2>1, <2>2, <2>3 DEF Returns, Fetches
  <2>8. \/ pending'[t] = c
        \/ pending'[t] = ANY /\ c = Head(callers[t])
    <3>1. pending'[t] = s
      BY <1>2
    <3> QED BY <2>0, <2>4, <3>1
  <2>9. src'[t] = c
    BY <2>3
  <2>10. FromSender
    BY <2>6, <2>7, <2>8, <2>9 DEF FromSender
  <2> QED BY <2>5, <2>10
<1> QED BY <1>3, <1>4, <1>5 DEF Receive

\* A blank wakes tasks that wait for one.
LEMMA VSyncWakes ==
  ASSUME IInv, VSync, NEW t \in Task
  PROVE  \/ state'[t] = state[t]
         \/ state[t] = "wait_vbl" /\ state'[t] = "ready"
<1>1. PICK refused :
        state' = [u \in Task |-> IF u \in {itask[s].tasknr : s \in Expired \ refused}
                                 THEN "ready" ELSE state[u]]
  BY DEF VSync
<1>2. \A s \in Expired : s \in chain /\ state[itask[s].tasknr] = "wait_vbl"
  BY DEF Expired, IInv, Slots, ChainIsWaiting
<1> QED BY <1>1, <1>2

\* A semaphore that is left wakes a task that is pending on it.
LEMMA UnlockWakes ==
  ASSUME IInv, NEW t \in User, UnlockSem(t)
  PROVE  \/ state' = state
         \/ \E w \in Task : state[w] = "pending" /\ state' = [state EXCEPT ![w] = "ready"]
<1> USE Constants
<1> DEFINE q == sem_queue[arg[t]]
<1>1. CASE ~HasWaiter(Tail(q))
  BY <1>1 DEF UnlockSem
<1>2. CASE HasWaiter(Tail(q))
  <2>1. arg[t] \in Sem /\ pc[t] = "sem"
    BY DEF UnlockSem, At, IInv, Semaphores
  <2>2. q \in Seq(Task) /\ Contains(q, t)
    BY <2>1 DEF IInv, TypeOK, Semaphores, SemWaiters
  <2>3. /\ Len(q) \in Nat /\ DOMAIN q = 1 .. Len(q)
        /\ \A i \in DOMAIN q : i > 1 => state[q[i]] = "pending"
    BY <2>1, <2>2, LenProperties DEF IInv, Semaphores, SemWaiters
  <2>4. q # <<>>
    BY <2>2, <2>3, EmptySeq DEF Contains
  <2>5. /\ Tail(q) \in Seq(Task) /\ Len(Tail(q)) = Len(q) - 1
        /\ \A i \in 1 .. Len(Tail(q)) : Tail(q)[i] = q[i + 1]
    BY <2>2, <2>4, HeadTailProperties
  <2>6. Len(Tail(q)) # 0
    BY <1>2, <2>5, EmptySeq DEF HasWaiter
  <2>7. Head(Tail(q)) = q[2] /\ 2 \in DOMAIN q
    <3>1. Len(q) >= 2
      <4> HIDE DEF q
      <4>1. Len(Tail(q)) \in Nat
        BY <2>5
      <4> QED BY <2>3, <2>5, <2>6, <4>1
    <3>2. Tail(q)[1] = q[1 + 1]
      BY <2>3, <2>5, <3>1
    <3> QED BY <2>3, <3>1, <3>2 DEF Head
  <2>8. q[2] \in Task /\ state[q[2]] = "pending"
    BY <2>2, <2>3, <2>7, ElementOfSeq
  <2>9. state' = [state EXCEPT ![q[2]] = "ready"]
    BY <1>2, <2>7 DEF UnlockSem, Successor
  <2> QED BY <2>8, <2>9
<1> QED BY <1>1, <1>2

LEMMA NextMessages ==
  ASSUME IInv, Payloads, Next PROVE Payloads' /\ FromSender
<1> USE Constants
<1>1. state \in [Task -> State] /\ pc \in [Task -> Label] /\ arg \in [Task -> Task \cup Sem]
  BY DEF IInv, TypeOK
<1>2. state[active] = "ready" /\ active \in Task
  BY DEF IInv, ReadyMask, TypeOK
<1>3. ASSUME NEW t \in User, Call(t) PROVE Payloads' /\ FromSender
  <2>0. t \in Task /\ t # System
    OBVIOUS
  <2>1. CASE UserSend(t)
    <3>1. PICK d \in User : Send(t, d, [code |-> "data", tasknr |-> t])
      BY <2>1 DEF UserSend
    <3>2. active = t /\ d \in Task /\ d # System
      BY <2>1 DEF UserSend, At
    <3>3. msg'[d] = [code |-> "data", tasknr |-> t] => Told(t, d)'
      BY <2>0, <3>2 DEF Told
    <3> QED BY <1>2, <2>0, <3>1, <3>2, <3>3, SendMessages
  <2>2. CASE UserReceive(t)
    BY <1>2, <2>0, <2>2, ReceiveMessages DEF UserReceive, At, callVars
  <2>3. CASE ResetInterruptWait(t)
    <3>1. /\ msg' = msg /\ pending' = pending
          /\ \A u \in Task : \/ src'[u] = src[u] /\ state'[u] = state[u]
                             \/ state[u] = "receiving" /\ state'[u] = "ready" /\ src'[u] = INTR_RESETED
      BY <1>1, <2>3 DEF ResetInterruptWait, IInv, TypeOK
    <3> QED BY <3>1, Sources DEF Payloads, FromSender, Returns, Fetches
  <2>4. CASE Sleep(t)
    BY <1>1, <1>2, <2>4, PlainMessages DEF Sleep, At, linkVars
  <2>5. CASE WakeTest(t) \/ InitVsync(t) \/ SetVsyncTask(t) \/ WaitVbl(t)
    BY <2>5, PlainMessages DEF WakeTest, InitVsync, SetVsyncTask, WaitVbl, linkVars
  <2>6. CASE LockSem(t)
    BY <1>1, <1>2, <2>6, PlainMessages DEF LockSem, At, linkVars
  <2>7. CASE StartTask(t)
    <3>1. PICK n \in User : /\ Send(t, System, [code |-> "start", tasknr |-> n])
                            /\ arg' = [arg EXCEPT ![t] = n]
      BY <2>7 DEF StartTask
    <3>2. active = t /\ pc'[t] = "sta" /\ arg'[t] = n
      BY <1>1, <2>0, <2>7, <3>1 DEF StartTask, At, Goto
    <3>3. msg'[System] = [code |-> "start", tasknr |-> n] => Told(t, System)'
      BY <2>0, <3>2 DEF Told, Asks
    <3> QED BY <1>2, <2>0, <3>1, <3>2, <3>3, SendMessages
  <2>8. CASE ExitTask(t)
    <3>1. /\ Send(t, System, [code |-> "exit", tasknr |-> t])
          /\ active = t /\ state[t] = "ready" /\ pc'[t] = "ext"
      BY <1>1, <1>2, <2>0, <2>8 DEF ExitTask, At, Goto
    <3>2. msg'[System] = [code |-> "exit", tasknr |-> t] => Told(t, System)'
      BY <2>0, <3>1 DEF Told, Asks
    <3> QED BY <2>0, <3>1, <3>2, SendMessages
  <2> QED BY <1>3, <2>1, <2>2, <2>3, <2>4, <2>5, <2>6, <2>7, <2>8 DEF Call
<1>4. ASSUME NEW t \in User, Continue(t) PROVE Payloads' /\ FromSender
  <2>0. t \in Task /\ t # System
    OBVIOUS
  <2>1. CASE WakeSleeper(t)
    <3>1. state[arg[t]] \in {"sleeping", "ready"}
      BY <2>1 DEF WakeSleeper, At, IInv, Waking
    <3> QED BY <1>1, <2>1, <3>1, PlainMessages DEF WakeSleeper, linkVars
  <2>2. CASE WakeCount(t) \/ FillSlot(t) \/ StartReturns(t)
    BY <2>2, PlainMessages DEF WakeCount, FillSlot, StartReturns, linkVars
  <2>3. CASE JoinChain(t)
    BY <1>1, <1>2, <2>3, PlainMessages DEF JoinChain, At, linkVars
  <2>4. CASE UnlockSem(t)
    <3>1. \/ state' = state
          \/ \E w \in Task : state[w] = "pending" /\ state' = [state EXCEPT ![w] = "ready"]
      BY <2>4, UnlockWakes DEF At, UnlockSem
    <3> QED BY <1>1, <2>4, <3>1, PlainMessages DEF UnlockSem, linkVars
  <2>5. CASE AwaitStart(t)
    <3>1. active = t /\ arg' = arg /\ \A u \in Task : u # t => pc'[u] = pc[u]
      BY <1>1, <2>5 DEF AwaitStart, At, Goto
    <3> QED BY <1>2, <2>0, <2>5, <3>1, ReceiveMessages DEF AwaitStart
  <2> QED BY <1>4, <2>1, <2>2, <2>3, <2>4, <2>5 DEF Continue
<1>5. ASSUME SystemStep PROVE Payloads' /\ FromSender
  <2>1. CASE SystemReceive
    <3>1. active = System /\ arg' = arg /\ \A u \in Task : u # System => pc'[u] = pc[u]
      BY <1>1, <2>1 DEF SystemReceive, At, Goto
    <3> QED BY <1>2, <2>1, <3>1, ReceiveMessages DEF SystemReceive
  <2>2. CASE SystemStart
    <3>1. /\ src' = src /\ pending' = pending /\ \A u \in User : msg'[u] = msg[u]
          /\ \/ state' = state
             \/ \E n : state[n] = "dead" /\ state' = [state EXCEPT ![n] = "ready"]
      BY <2>2 DEF SystemStart, IInv, TypeOK
    <3>2. \A u \in Task : \/ state'[u] = state[u]
                          \/ state[u] = "dead" /\ state'[u] = "ready"
      <4>1. CASE state' = state
        BY <4>1
      <4>2. CASE \E n : state[n] = "dead" /\ state' = [state EXCEPT ![n] = "ready"]
        BY <1>1, <4>2
      <4> QED BY <3>1, <4>1, <4>2
    <3> QED BY <3>1, <3>2 DEF Payloads, FromSender, Returns, Fetches
  <2>3. CASE SystemExit
    <3>1. state[src[System]] = "ready"
      BY <2>3, Serving DEF SystemExit, At
    <3> QED BY <1>1, <2>3, <3>1, PlainMessages DEF SystemExit, linkVars
  <2>4. CASE SystemReply
    <3>1. PICK d \in User : d = src[System]
      BY <2>4, Serving DEF SystemReply, At
    <3>2. PICK m : m = msg[System]
      OBVIOUS
    <3>3. /\ Send(System, d, m) /\ state[System] = "ready"
          /\ active = System /\ arg' = arg /\ Answers(d, m)
      BY <1>2, <2>4, <3>1, <3>2, Serving DEF SystemReply, At
    <3>4. msg'[d] = m => Told(System, d)'
      BY <3>3 DEF Answers, Told
    <3> QED BY <3>3, <3>4, SendMessages
  <2> QED BY <1>5, <2>1, <2>2, <2>3, <2>4 DEF SystemStep
<1>6. CASE VSync
  <2>1. \A t \in Task : \/ state'[t] = state[t]
                        \/ state[t] = "wait_vbl" /\ state'[t] = "ready"
    BY <1>6, VSyncWakes
  <2> QED BY <1>1, <1>6, <2>1, PlainMessages DEF VSync, linkVars
<1>7. ASSUME NEW d \in User, ISend(d) PROVE Payloads' /\ FromSender
  <2>1. \/ state' = state
        \/ /\ state[d] = "receiving" /\ src[d] \in {INTR, INTR2}
           /\ state' = [state EXCEPT ![d] = "ready"]
    BY <1>7 DEF ISend
  <2> QED BY <1>1, <1>7, <2>1, PlainMessages DEF ISend
<1> QED BY <1>3, <1>4, <1>5, <1>6, <1>7 DEF Next

\* A receiver gets what the sender it is told of sent, whoever else has queued meanwhile.
THEOREM MessageFromSenderHolds == ASSUME Discipline PROVE Spec => MessageFromSender
<1>1. Init => Payloads
  BY Constants DEF Init, Payloads
<1>2. IInv /\ Payloads /\ [Next]_vars => Payloads'
  BY NextMessages DEF vars, Payloads
<1>3. IInv /\ Payloads /\ [Next]_vars => [FromSender]_vars
  BY NextMessages
<1> QED BY <1>1, <1>2, <1>3, Invariant, PTL DEF Spec, MessageFromSender

-----------------------------------------------------------------------------
(* Priorities. *)

\* The next task is the most urgent of those that are READY.
LEMMA FirstIsUrgent == ASSUME Dispatch, ready' \subseteq Task PROVE UrgentRuns'
<1> USE Constants
<1>1. active' \in ready' /\ \A u \in ready' : active' <= u
  BY DispatchFirst DEF IsFirstReady
<1>2. ASSUME NEW u \in ready', u < active' PROVE FALSE
  BY <1>1, <1>2
<1> QED BY <1>2 DEF UrgentRuns

\* Only a task in a semaphore runs ahead of more urgent ones.
LEMMA NobodyAhead ==
  ASSUME IInv, UrgentRuns, pc[active] # "sem" PROVE \A u \in ready : ~(u < active)
BY DEF UrgentRuns, Inherits

\* The task that runs goes on, and those that become READY are less urgent.
LEMMA StaysUrgent ==
  ASSUME IInv, UrgentRuns, active' = active, \A u \in ready' : u \in ready \/ ~(u < active),
         \/ pc[active] # "sem"
         \/ /\ pc' = pc /\ arg' = arg
            /\ \A w \in User : state[w] = "pending" => state'[w] = "pending"
  PROVE  UrgentRuns'
BY NobodyAhead DEF UrgentRuns, Inherits

\* A semaphore's holder and its waiters, told by where the tasks are.
LEMMA QueueFacts ==
  ASSUME IInv, NEW n \in Sem
  PROVE  /\ sem_queue[n] \in Seq(Task) /\ IsInjective(sem_queue[n])
         /\ Len(sem_queue[n]) \in Nat /\ DOMAIN sem_queue[n] = 1 .. Len(sem_queue[n])
         /\ \A i \in 1 .. Len(sem_queue[n]) :
              LET q == sem_queue[n][i] IN
              /\ q \in User /\ pc[q] = "sem" /\ arg[q] = n
              /\ state[q] = IF i > 1 THEN "pending" ELSE "ready"
         /\ \A w \in User : state[w] = "pending" /\ arg[w] = n
              => \E i \in 1 .. Len(sem_queue[n]) : i > 1 /\ sem_queue[n][i] = w
<1> USE Constants
<1>1. /\ sem_queue[n] \in Seq(Task) /\ IsInjective(sem_queue[n])
      /\ \A t \in Task : Contains(sem_queue[n], t) <=> pc[t] = "sem" /\ arg[t] = n
      /\ \A i \in DOMAIN sem_queue[n] : state[sem_queue[n][i]] = "pending" <=> i > 1
  BY DEF IInv, TypeOK, Semaphores, SemWaiters
<1>2. Len(sem_queue[n]) \in Nat /\ DOMAIN sem_queue[n] = 1 .. Len(sem_queue[n])
  BY <1>1, LenProperties
<1>3. ASSUME NEW i \in 1 .. Len(sem_queue[n])
      PROVE  LET q == sem_queue[n][i] IN
             /\ q \in User /\ pc[q] = "sem" /\ arg[q] = n
             /\ state[q] = IF i > 1 THEN "pending" ELSE "ready"
  <2> DEFINE q == sem_queue[n][i]
  <2>1. q \in Task /\ Contains(sem_queue[n], q)
    BY <1>1, <1>2, ElementOfSeq DEF Contains
  <2>2. pc[q] = "sem" /\ arg[q] = n /\ (state[q] = "pending" <=> i > 1)
    BY <1>1, <1>2, <2>1
  <2> HIDE DEF q
  <2>3. q \in User
    BY <2>1, <2>2 DEF IInv, Labels
  <2>4. state[q] \in {"ready", "pending"}
    BY <2>2, <2>3 DEF IInv, Labels
  <2> QED BY <2>2, <2>3, <2>4 DEF q
<1>4. ASSUME NEW w \in User, state[w] = "pending", arg[w] = n
      PROVE  \E i \in 1 .. Len(sem_queue[n]) : i > 1 /\ sem_queue[n][i] = w
  <2>1. pc[w] = "sem"
    BY <1>4 DEF IInv, TypeOK, Labels, Label
  <2>2. Contains(sem_queue[n], w)
    BY <1>1, <1>4, <2>1
  <2> QED BY <1>1, <1>2, <1>4, <2>2 DEF Contains
<1> QED BY <1>1, <1>2, <1>3, <1>4

LEMMA LockUrgent ==
  ASSUME IInv, UrgentRuns, Queued, NEW t \in User, LockSem(t)
  PROVE  UrgentRuns' /\ Queued'
<1> USE Constants
<1>1. PICK n \in Sem :
        /\ <<t, n>> \in Locks
        /\ sem_queue' = [sem_queue EXCEPT ![n] = Append(@, t)]
        /\ arg' = [arg EXCEPT ![t] = n]
        /\ \/ SemFree(n) /\ UNCHANGED <<active, ready, state>>
           \/ /\ ~SemFree(n)
              /\ state' = [state EXCEPT ![t] = "pending"]
              /\ ready' = Unready(t)
              /\ active' = Head(sem_queue[n])
  BY DEF LockSem
<1>2. active = t /\ pc[t] = "run" /\ t \in ready /\ pc' = [pc EXCEPT ![t] = "sem"]
  BY DEF LockSem, At, Goto, IInv, ReadyMask
<1>3. \A u \in ready : ~(u < t)
  BY <1>2, NobodyAhead
<1>4. /\ pc \in [Task -> Label] /\ arg \in [Task -> Task \cup Sem] /\ state \in [Task -> State]
      /\ sem_queue \in [Sem -> Seq(Task)] /\ ready \subseteq Task
  BY DEF IInv, TypeOK
<1> DEFINE q == sem_queue[n]
<1>5. /\ q \in Seq(Task) /\ Len(q) \in Nat /\ DOMAIN q = 1 .. Len(q)
      /\ \A i \in 1 .. Len(q) : /\ q[i] \in User /\ pc[q[i]] = "sem" /\ arg[q[i]] = n
                                /\ state[q[i]] = IF i > 1 THEN "pending" ELSE "ready"
  BY QueueFacts
<1>6. /\ Append(q, t) \in Seq(Task) /\ Len(Append(q, t)) = Len(q) + 1
      /\ DOMAIN Append(q, t) = 1 .. Len(q) + 1
      /\ \A i \in 1 .. Len(q) : Append(q, t)[i] = q[i]
      /\ Append(q, t)[Len(q) + 1] = t
  BY <1>5, AppendProperties, LenProperties
<1>7. sem_queue'[n] = Append(q, t) /\ \A k \in Sem : k # n => sem_queue'[k] = sem_queue[k]
  BY <1>1, <1>4
<1> HIDE DEF q
<1>8. CASE SemFree(n)
  <2>1. q = <<>> /\ Len(q) = 0
    BY <1>5, <1>8, EmptySeq DEF SemFree, q
  <2>2. UNCHANGED <<active, ready, state>>
    BY <1>1, <1>8
  <2>3. UrgentRuns'
    BY <1>2, <2>2, StaysUrgent
  <2>4. Queued'
    BY <1>1, <1>5, <1>6, <1>7, <2>1 DEF Queued, q
  <2> QED BY <2>3, <2>4
<1>9. CASE ~SemFree(n)
  <2>1. q # <<>> /\ Len(q) >= 1
    BY <1>5, <1>9, EmptySeq DEF SemFree, q
  <2>2. PICK h \in User : h = q[1]
    <3>1. 1 \in 1 .. Len(q)
      BY <1>5, <2>1
    <3>2. q[1] \in User
      BY <1>5, <3>1
    <3> QED BY <3>2
  <2>3. /\ active' = h /\ state' = [state EXCEPT ![t] = "pending"] /\ ready' = ready \ {t}
        /\ pc[h] = "sem" /\ arg[h] = n /\ state[h] = "ready"
    BY <1>1, <1>9, <1>5, <2>1, <2>2 DEF Unready, q
  <2>4. h # t /\ h \in ready
    BY <1>2, <2>3 DEF IInv, ReadyMask
  <2>5. t < h
    BY <1>3, <2>3, <2>4
  <2>6. ASSUME NEW u \in ready' PROVE Inherits(h, u)'
    <3>1. t < u
      BY <1>3, <1>4, <2>3, <2>6
    <3>2. state'[t] = "pending" /\ pc'[h] = "sem" /\ arg'[h] = n /\ arg'[t] = n
      BY <1>1, <1>2, <1>4, <2>3, <2>4
    <3> QED BY <3>1, <3>2 DEF Inherits
  <2>7. UrgentRuns'
    BY <2>3, <2>6 DEF UrgentRuns
  <2>8. Append(q, t)[2] < Append(q, t)[1]
    <3>1. CASE Len(q) = 1
      BY <1>6, <2>2, <2>5, <3>1
    <3>2. CASE Len(q) > 1
      BY <1>5, <1>6, <3>2 DEF Queued, q
    <3> QED BY <1>5, <2>1, <3>1, <3>2
  <2>9. Queued'
    <3> SUFFICES ASSUME NEW k \in Sem
                 PROVE  /\ \A i \in DOMAIN sem_queue'[k] : <<sem_queue'[k][i], k>> \in Locks
                        /\ Len(sem_queue'[k]) > 1 => sem_queue'[k][2] < sem_queue'[k][1]
      BY DEF Queued
    <3>1. CASE k = n
      <4>1. \A i \in 1 .. Len(q) : <<q[i], n>> \in Locks
        BY <1>5 DEF Queued, q
      <4>2. \A i \in 1 .. Len(q) + 1 : <<Append(q, t)[i], n>> \in Locks
        BY <4>1, <1>1, <1>5, <1>6
      <4> QED BY <3>1, <4>2, <1>6, <1>7, <2>8
    <3>2. CASE k # n
      BY <3>2, <1>7 DEF Queued
    <3> QED BY <3>1, <3>2
  <2> QED BY <2>7, <2>9
<1> QED BY <1>8, <1>9

LEMMA UnlockUrgent ==
  ASSUME IInv, UrgentRuns, Queued, SharedByTwo, NEW t \in User, UnlockSem(t)
  PROVE  UrgentRuns' /\ Queued'
<1> USE Constants
<1> DEFINE n == arg[t]
           q == sem_queue[n]
           rest == Tail(q)
<1>1. /\ active = t /\ pc[t] = "sem" /\ pc' = [pc EXCEPT ![t] = "run"] /\ arg' = arg
      /\ sem_queue' = [sem_queue EXCEPT ![n] = rest]
      /\ \/ ~HasWaiter(rest) /\ UNCHANGED <<active, ready, state>>
         \/ /\ HasWaiter(rest)
            /\ ready' = ready \cup {Successor(rest)}
            /\ active' = Successor(rest)
  BY DEF UnlockSem, At, Goto
<1>2. /\ n \in Sem /\ t \in ready /\ state[t] = "ready" /\ ready \subseteq Task
      /\ sem_queue \in [Sem -> Seq(Task)] /\ Contains(q, t)
  BY <1>1 DEF IInv, ReadyMask, Semaphores, SemWaiters, TypeOK
<1>3. /\ q \in Seq(Task) /\ IsInjective(q) /\ Len(q) \in Nat /\ DOMAIN q = 1 .. Len(q)
      /\ \A i \in 1 .. Len(q) : /\ q[i] \in User
                                /\ state[q[i]] = IF i > 1 THEN "pending" ELSE "ready"
      /\ \A w \in User : state[w] = "pending" /\ arg[w] = n
           => \E i \in 1 .. Len(q) : i > 1 /\ q[i] = w
      /\ \A i \in 1 .. Len(q) : <<q[i], n>> \in Locks
      /\ Len(q) > 1 => q[2] < q[1]
  BY <1>2, QueueFacts DEF Queued
<1>4. Len(q) >= 1 /\ q[1] = t
  BY <1>2, <1>3 DEF Contains
<1>5. Len(q) <= 2
  <2> SUFFICES ASSUME Len(q) > 2 PROVE FALSE
    BY <1>3
  <2>1. /\ <<q[1], n>> \in Locks /\ <<q[2], n>> \in Locks /\ <<q[3], n>> \in Locks
        /\ q[1] \in User /\ q[2] \in User /\ q[3] \in User
    BY <1>3
  <2>2. q[1] # q[2] /\ q[2] # q[3] /\ q[1] # q[3]
    BY <1>3 DEF IsInjective
  <2> HIDE DEF n, q
  <2> QED BY <1>2, <2>1, <2>2 DEF SharedByTwo
<1>6. /\ rest \in Seq(Task) /\ Len(rest) = Len(q) - 1 /\ DOMAIN rest = 1 .. Len(rest)
      /\ \A i \in 1 .. Len(rest) : rest[i] = q[i + 1]
  <2>1. q # <<>>
    BY <1>3, <1>4, EmptySeq
  <2> QED BY <1>3, <2>1, HeadTailProperties, LenProperties
<1> HIDE DEF n, q, rest
<1>7. Queued'
  <2>1. sem_queue'[n] = rest /\ \A k \in Sem : k # n => sem_queue'[k] = sem_queue[k]
    BY <1>1, <1>2 DEF q
  <2> SUFFICES ASSUME NEW k \in Sem
               PROVE  /\ \A i \in DOMAIN sem_queue'[k] : <<sem_queue'[k][i], k>> \in Locks
                      /\ Len(sem_queue'[k]) > 1 => sem_queue'[k][2] < sem_queue'[k][1]
    BY DEF Queued
  <2>2. CASE k = n
    <3>1. \A i \in 1 .. Len(rest) : i + 1 \in 1 .. Len(q) /\ <<rest[i], n>> \in Locks
      BY <1>3, <1>6
    <3> QED BY <2>1, <2>2, <3>1, <1>3, <1>5, <1>6
  <2>3. CASE k # n
    BY <2>1, <2>3 DEF Queued
  <2> QED BY <2>2, <2>3
<1>11. Len(q) \in Nat /\ Len(rest) = Len(q) - 1
  BY <1>3, <1>6
<1>8. CASE ~HasWaiter(rest)
  <2>0. Len(rest) = 0
    BY <1>6, <1>8, EmptySeq DEF HasWaiter
  <2>1. active' = active /\ ready' = ready /\ Len(q) = 1
    <3>1. Len(q) = 1
      BY <1>11, <2>0
    <3>2. active' = active /\ ready' = ready
      BY <1>1, <1>8
    <3> QED BY <3>1, <3>2
  <2>2. \A w \in User : ~(state[w] = "pending" /\ arg[w] = n)
    BY <1>3, <2>1
  <2>3. \A u \in ready : ~(u < t)
    BY <1>1, <2>2 DEF UrgentRuns, Inherits, n
  <2> QED BY <1>1, <1>7, <2>1, <2>3 DEF UrgentRuns
<1>9. CASE HasWaiter(rest)
  <2>1. Len(q) = 2 /\ Successor(rest) = q[2]
    BY <1>3, <1>5, <1>6, <1>9, EmptySeq DEF HasWaiter, Successor
  <2>2. active' = q[2] /\ ready' = ready \cup {q[2]} /\ q[2] < t /\ q[2] \in User
    BY <1>1, <1>3, <1>4, <1>9, <2>1
  <2>3. ASSUME NEW u \in ready', u < q[2] PROVE FALSE
    <3>0. q[2] \in Int /\ t \in Int /\ u \in Int
      BY <1>2, <2>2
    <3>1. u \in ready /\ u < t
      BY <2>2, <2>3, <3>0
    <3>2. PICK w \in User : w < u /\ state[w] = "pending" /\ arg[w] = n
      BY <1>1, <3>1 DEF UrgentRuns, Inherits, n
    <3>3. w = q[2]
      BY <1>3, <2>1, <3>2
    <3> QED BY <2>3, <3>0, <3>2, <3>3
  <2> QED BY <1>7, <2>2, <2>3 DEF UrgentRuns
<1> QED BY <1>1, <1>8, <1>9

LEMMA NextUrgent ==
  ASSUME IInv, IInv', Discipline, SharedByTwo, UrgentRuns, Queued, Next
  PROVE  UrgentRuns' /\ Queued'
<1> USE Constants
<1>1. ready' \subseteq Task /\ ready \subseteq Task /\ state \in [Task -> State] /\ active \in Task
  BY DEF IInv, TypeOK
<1>2. ASSUME sem_queue' = sem_queue PROVE Queued'
  BY <1>2 DEF Queued
<1>3. ASSUME NEW t \in User, Call(t) PROVE UrgentRuns' /\ Queued'
  <2>1. CASE UserSend(t) \/ UserReceive(t) \/ ResetInterruptWait(t) \/ Sleep(t)
             \/ StartTask(t) \/ ExitTask(t)
    <3>1. Dispatch /\ sem_queue' = sem_queue
      BY <2>1 DEF UserSend, UserReceive, ResetInterruptWait, Sleep, StartTask, ExitTask, Send, Receive
    <3> QED BY <1>1, <1>2, <3>1, FirstIsUrgent
  <2>2. CASE WakeTest(t) \/ InitVsync(t) \/ SetVsyncTask(t) \/ WaitVbl(t)
    <3>1. active' = active /\ ready' = ready /\ sem_queue' = sem_queue /\ pc[active] = "run"
      BY <2>2 DEF WakeTest, InitVsync, SetVsyncTask, WaitVbl, At, waitVars
    <3> QED BY <1>2, <3>1, StaysUrgent
  <2>3. CASE LockSem(t)
    BY <2>3, LockUrgent
  <2> QED BY <1>3, <2>1, <2>2, <2>3 DEF Call
<1>4. ASSUME NEW t \in User, Continue(t) PROVE UrgentRuns' /\ Queued'
  <2>1. CASE WakeSleeper(t)
    <3>1. /\ active = t /\ pc[t] = "wup" /\ sem_queue' = sem_queue
          /\ ready' = ready \cup {arg[t]}
          /\ IF Preempts(arg[t]) THEN Dispatch ELSE active' = active
      BY <2>1 DEF WakeSleeper, At
    <3>2. CASE Preempts(arg[t])
      BY <1>1, <1>2, <3>1, <3>2, FirstIsUrgent
    <3>3. CASE ~Preempts(arg[t])
      BY <1>2, <3>1, <3>3, StaysUrgent DEF Preempts
    <3> QED BY <3>2, <3>3
  <2>2. CASE WakeCount(t) \/ FillSlot(t) \/ StartReturns(t)
    <3>1. /\ active' = active /\ ready' = ready /\ sem_queue' = sem_queue
          /\ pc[active] \in {"wupinc", "vsync", "started"}
      BY <2>2 DEF WakeCount, FillSlot, StartReturns, At, waitVars
    <3> QED BY <1>2, <3>1, StaysUrgent
  <2>3. CASE JoinChain(t) \/ AwaitStart(t)
    <3>1. Dispatch /\ sem_queue' = sem_queue
      BY <2>3 DEF JoinChain, AwaitStart, Receive
    <3> QED BY <1>1, <1>2, <3>1, FirstIsUrgent
  <2>4. CASE UnlockSem(t)
    BY <2>4, UnlockUrgent
  <2> QED BY <1>4, <2>1, <2>2, <2>3, <2>4 DEF Continue
<1>5. CASE SystemReceive \/ SystemReply
  <2>1. Dispatch /\ sem_queue' = sem_queue
    BY <1>5 DEF SystemReceive, SystemReply, Send, Receive
  <2> QED BY <1>1, <1>2, <2>1, FirstIsUrgent
<1>6. CASE SystemStart \/ SystemExit
  <2>1. active = System /\ active' = active /\ sem_queue' = sem_queue
    BY <1>6 DEF SystemStart, SystemExit, At
  <2>2. \A u \in ready' : ~(u < System)
    BY <1>1 DEF System
  <2> QED BY <1>2, <2>1, <2>2 DEF UrgentRuns
<1>7. CASE VSync
  <2>1. PICK woken : /\ state' = [t \in Task |-> IF t \in woken THEN "ready" ELSE state[t]]
                     /\ ready' = ready \cup woken
                     /\ \A t \in woken : \E s \in chain : t = itask[s].tasknr
                     /\ IF \E t \in woken : Preempts(t) THEN Dispatch ELSE active' = active
    <3>1. PICK refused \in SUBSET {s \in Expired : itask[s].tasknr \in VblCallbacks} :
            LET woken == {itask[s].tasknr : s \in Expired \ refused} IN
            /\ state' = [t \in Task |-> IF t \in woken THEN "ready" ELSE state[t]]
            /\ ready' = ready \cup woken
            /\ IF \E t \in woken : Preempts(t) THEN Dispatch ELSE active' = active
      BY <1>7 DEF VSync
    <3>2. \A t \in {itask[s].tasknr : s \in Expired \ refused} : \E s \in chain : t = itask[s].tasknr
      BY DEF Expired
    <3> QED BY <3>1, <3>2
  <2>2. sem_queue' = sem_queue /\ pc' = pc /\ arg' = arg
    BY <1>7 DEF VSync, callVars
  <2>3. \A t \in woken : state[t] = "wait_vbl"
    BY <2>1 DEF IInv, Slots, ChainIsWaiting
  <2>4. CASE \E t \in woken : Preempts(t)
    BY <1>1, <1>2, <2>1, <2>2, <2>4, FirstIsUrgent
  <2>5. CASE ~\E t \in woken : Preempts(t)
    BY <1>2, <2>1, <2>2, <2>3, <2>5, StaysUrgent DEF Preempts
  <2> QED BY <2>4, <2>5
<1>8. ASSUME NEW d \in User, ISend(d) PROVE UrgentRuns' /\ Queued'
  <2>1. sem_queue' = sem_queue /\ pc' = pc /\ arg' = arg
    BY <1>8 DEF ISend, callVars
  <2>2. CASE UNCHANGED <<active, ready, state>>
    BY <1>2, <2>1, <2>2, StaysUrgent
  <2>3. CASE /\ state[d] = "receiving" /\ state' = [state EXCEPT ![d] = "ready"]
             /\ ready' = ready \cup {d}
             /\ IF Preempts(d) THEN Dispatch ELSE UNCHANGED active
    <3>1. CASE Preempts(d)
      BY <1>1, <1>2, <2>1, <2>3, <3>1, FirstIsUrgent
    <3>2. CASE ~Preempts(d)
      BY <1>1, <1>2, <2>1, <2>3, <3>2, StaysUrgent DEF Preempts
    <3> QED BY <3>1, <3>2
  <2> QED BY <1>8, <2>2, <2>3 DEF ISend
<1> QED BY <1>3, <1>4, <1>5, <1>6, <1>7, <1>8 DEF Next, SystemStep

\* With two tasks per semaphore, a READY task more urgent than the running one waits only
\* while that holds a semaphore which a still more urgent task is blocked on.
THEOREM UrgentRunsHolds ==
  ASSUME Discipline, SharedByTwo PROVE Spec => []UrgentRuns
<1>1. Init => UrgentRuns /\ Queued
  <2> SUFFICES ASSUME Init PROVE UrgentRuns /\ Queued
    OBVIOUS
  <2>1. \A u \in ready : u >= 0
    BY Constants, SizeAssumption DEF Init, System, Task
  <2>2. \A u \in ready : ~(u < active)
    BY Constants, <2>1, SizeAssumption DEF Init, System, User, Idle
  <2>3. \A n \in Sem : sem_queue[n] = <<>> /\ Len(sem_queue[n]) = 0
    BY EmptySeq DEF Init
  <2>4. Queued
    BY <2>3 DEF Queued
  <2> QED BY <2>2, <2>4 DEF UrgentRuns
<1>2. IInv /\ IInv' /\ UrgentRuns /\ Queued /\ [Next]_vars => (UrgentRuns /\ Queued)'
  BY NextUrgent DEF vars, UrgentRuns, Inherits, Queued
<1> QED BY <1>1, <1>2, Invariant, PTL DEF Spec
=============================================================================
