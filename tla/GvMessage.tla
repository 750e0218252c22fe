------------------------------ MODULE GvMessage ------------------------------
(***************************************************************************)
(* libgv/message.c and the frame that drives it.  Two buffers of messages *)
(* change places once a frame: the actors send to one and receive from    *)
(* the other.  Messages to one address stand together in a buffer, newest *)
(* first, and the first of them says how many there are.                  *)
(*                                                                         *)
(* GV_ExecActorSystem runs the lists of actors in order.  They fall into  *)
(* five groups here: the daemon of libgv (gvd.c), the managers, the       *)
(* assistants (the camera, the lists ASSIST and PREV2), the demo canceller*)
(* and its like at the end of those lists, and all the others.  A list is *)
(* passed over while GV_PauseLevel shares a bit with its pause level.     *)
(***************************************************************************)
EXTENDS Naturals, FiniteSets, SequencesExt

CONSTANTS Address,      \* the addresses (names of actors) in use
          Actor,        \* actors that receive once in each frame they run
          Assistant,    \* those that are in the lists ASSIST and PREV2
          Home,         \* the address each actor asks for
          Pauser,       \* what pauses the game: the menu, the codec, gamed.c, a demo canceller
          Late,         \* the pausers that run after the assistants
          Bit,          \* the bit of GV_PauseLevel each pauser sets
          GV_LEVEL_STOP, \* the bits that stop the assistants as well
          MAX_MESSAGES, \* room of a buffer
          SendLimit     \* bound: messages sent in a behaviour

ASSUME MessageAssumption == /\ Assistant \subseteq Actor
                            /\ \A u \in Actor : Home[u] \in Address
                            /\ Late \subseteq Pauser
                            /\ \A p \in Late : Bit[p] \notin GV_LEVEL_STOP
                            /\ MAX_MESSAGES \in Nat \ {0}
                            /\ SendLimit \in Nat

VARIABLES
  message_list,  \* the two buffers, entries [address, body, len]
  which_buffer,  \* the buffer that is received from
  GV_PauseLevel, \* the bits that are on
  open,          \* the pausers that have paused the game and not let it go on
  group,         \* the group of lists that runs
  todo,          \* actors of the group that have not run yet
  sent,          \* number of messages sent so far: the body of the last one
  got,           \* history: by actor, the messages it has received
  rejected       \* whether GV_SendMessage last returned -1

mailVars  == <<message_list, which_buffer>>
pauseVars == <<GV_PauseLevel, open>>
frameVars == <<group, todo>>
vars == <<mailVars, pauseVars, frameVars, sent, got, rejected>>

Body  == 1 .. SendLimit
Entry == [address : Address, body : Body, len : 1 .. MAX_MESSAGES]
Group == {"daemon", "managers", "assistants", "cancellers", "others"}

Init == /\ message_list = [i \in {0, 1} |-> <<>>]
        /\ which_buffer = 0
        /\ GV_PauseLevel = {}
        /\ open = {}
        /\ group = "daemon"
        /\ todo = {}
        /\ sent = 0
        /\ got = [u \in Actor |-> {}]
        /\ rejected = FALSE

-----------------------------------------------------------------------------
(* message.c *)

\* faulty: the buffer that was being read is not emptied.
GV_ClearMessageSystemKeeps ==
  /\ which_buffer' = 1 - which_buffer
  /\ UNCHANGED message_list

GV_ClearMessageSystem ==
  /\ which_buffer' = 1 - which_buffer
  /\ message_list' = [message_list EXCEPT ![which_buffer] = <<>>]

\* The place of the first message to an address, or the end of the list.
FirstTo(list, a) ==
  LET at == {i \in DOMAIN list : list[i].address = a}
  IN  IF at = {} THEN Len(list) + 1 ELSE CHOOSE i \in at : \A j \in at : i <= j

CountAt(list, i) == IF i > Len(list) THEN 0 ELSE list[i].len

\* faulty: a new message is put after the first one to its address.
InsertedSecond(list, a, b) ==
  LET i == FirstTo(list, a)
      k == IF i > Len(list) THEN i ELSE i + 1
  IN  InsertAt(list, k, [address |-> a, body |-> b, len |-> CountAt(list, i) + 1])

Inserted(list, a, b) ==
  LET i == FirstTo(list, a)
  IN  InsertAt(list, i, [address |-> a, body |-> b, len |-> CountAt(list, i) + 1])

GV_SendMessage(a) ==
  LET w == 1 - which_buffer IN
  /\ sent < SendLimit
  /\ sent' = sent + 1
  /\ \/ /\ Len(message_list[w]) >= MAX_MESSAGES
        /\ rejected' = TRUE
        /\ UNCHANGED message_list
     \/ /\ Len(message_list[w]) < MAX_MESSAGES
        /\ rejected' = FALSE
        /\ message_list' = [message_list EXCEPT ![w] = Inserted(@, a, sent')]

\* What a receiver reads at the place it is given: as many messages as the
\* first one says.
MessagesTo(list, a) ==
  LET i == FirstTo(list, a)
  IN  [k \in 1 .. CountAt(list, i) |-> list[i + k - 1].body]

\* faulty: messages are handed out in a pause, too.
GV_ReceiveMessagePaused(a) == MessagesTo(message_list[which_buffer], a)

GV_ReceiveMessage(a) ==
  IF GV_PauseLevel # {} THEN <<>> ELSE MessagesTo(message_list[which_buffer], a)

GV_InitMessageSystem ==
  /\ message_list' = [i \in {0, 1} |-> <<>>]
  /\ which_buffer' = 0

-----------------------------------------------------------------------------
(* The frame *)

\* faulty: the buffers change places while the game is paused, too.
DaemonAlways ==
  /\ group = "daemon"
  /\ GV_ClearMessageSystem
  /\ group' = "managers"
  /\ UNCHANGED <<pauseVars, todo, sent, got, rejected>>

\* gvd.c: the buffers change places unless the game is paused.
Daemon ==
  /\ group = "daemon"
  /\ \/ GV_PauseLevel = {} /\ GV_ClearMessageSystem
     \/ GV_PauseLevel # {} /\ UNCHANGED mailVars
  /\ group' = "managers"
  /\ UNCHANGED <<pauseVars, todo, sent, got, rejected>>

\* Whether the lists of a group are executed at a pause level.
Runs(g, level) == \/ g \in {"daemon", "managers"}
                  \/ g \in {"assistants", "cancellers"} /\ GV_LEVEL_STOP \cap level = {}
                  \/ g = "others" /\ level = {}

\* faulty: the lists of the others are executed unless the game is stopped.
RunsUnlessStopped(g, level) == \/ g \in {"daemon", "managers"}
                               \/ GV_LEVEL_STOP \cap level = {}

Follows(g) == CASE g = "managers"   -> "assistants"
                [] g = "assistants" -> "cancellers"
                [] g = "cancellers" -> "others"
                [] g = "others"     -> "daemon"

Members(g) == CASE g = "assistants" -> Assistant
                [] g = "others"     -> Actor \ Assistant
                [] OTHER            -> {}

\* A group has run: the pause level is looked at again for the next one.
NextGroup ==
  /\ group # "daemon"
  /\ todo = {}
  /\ group' = Follows(group)
  /\ todo' = {u \in Members(group') : Runs(group', GV_PauseLevel)}
  /\ UNCHANGED <<mailVars, pauseVars, sent, got, rejected>>

\* A pauser acts in its group, while that runs.
Acts(p) == /\ group = IF p \in Late THEN "cancellers" ELSE "managers"
           /\ Runs(group, GV_PauseLevel)

\* Assumed of the stages: a manager and a canceller do not pause the game at once,
\* but that a manager may stop it altogether in the pause of a canceller.
MayPause(p) == \A q \in open : (q \in Late <=> p \in Late) \/ Bit[p] \in GV_LEVEL_STOP

Pause(p) ==
  /\ Acts(p)
  /\ p \notin open
  /\ MayPause(p)
  /\ open' = open \cup {p}
  /\ GV_PauseLevel' = GV_PauseLevel \cup {Bit[p]}
  /\ UNCHANGED <<mailVars, frameVars, sent, got, rejected>>

\* The bit goes off even if another pauser has set it as well.
Unpause(p) ==
  /\ Acts(p)
  /\ p \in open
  /\ open' = open \ {p}
  /\ GV_PauseLevel' = GV_PauseLevel \ {Bit[p]}
  /\ UNCHANGED <<mailVars, frameVars, sent, got, rejected>>

\* An actor of a group that runs sends a message, or a script that it runs does.
SendMessage(a) ==
  /\ group # "daemon"
  /\ Runs(group, GV_PauseLevel)
  /\ GV_SendMessage(a)
  /\ UNCHANGED <<which_buffer, pauseVars, frameVars, got>>

\* gamed.c starts another stage: the messages of the last one are dropped.
ResetSystem ==
  /\ group = "managers"
  /\ GV_InitMessageSystem
  /\ UNCHANGED <<pauseVars, frameVars, sent, got, rejected>>

RunActor(u) ==
  /\ u \in todo
  /\ todo' = todo \ {u}
  /\ got' = [got EXCEPT ![u] = @ \cup ToSet(GV_ReceiveMessage(Home[u]))]
  /\ UNCHANGED <<mailVars, pauseVars, group, sent, rejected>>

Next == \/ Daemon
        \/ NextGroup
        \/ \E p \in Pauser : Pause(p) \/ Unpause(p)
        \/ \E a \in Address : SendMessage(a)
        \/ ResetSystem
        \/ \E u \in Actor : RunActor(u)

Spec == Init /\ [][Next]_vars

-----------------------------------------------------------------------------
(* Properties *)

\* Every variable has its type; a buffer never holds more than its room.
TypeOK == /\ message_list \in [{0, 1} -> Seq(Entry)]
          /\ \A i \in {0, 1} : Len(message_list[i]) <= MAX_MESSAGES
          /\ which_buffer \in {0, 1}
          /\ GV_PauseLevel \subseteq {Bit[p] : p \in Pauser}
          /\ open \subseteq Pauser
          /\ group \in Group
          /\ todo \subseteq Actor
          /\ sent \in 0 .. SendLimit
          /\ got \in [Actor -> SUBSET Body]
          /\ rejected \in BOOLEAN

\* The messages that wait for an actor in the buffer that is received from.
Held(u) == ToSet(MessagesTo(message_list[which_buffer], Home[u]))

\* However the game is paused and goes on, by managers before an actor runs or
\* by others after it, no actor receives a message a second time.
NeverTwice ==
  /\ TypeOK
  /\ \A u \in todo : ToSet(GV_ReceiveMessage(Home[u])) \cap got[u] = {}

\* When gvd.c is about to drop the messages of a frame, every actor has received
\* those to its address, however often the game was paused since they were sent.
NeverLost ==
  group = "daemon" /\ GV_PauseLevel = {} => \A u \in Actor : Held(u) \subseteq got[u]

\* The buffers behave as the mailbox of GvMailbox: places, counts and the change
\* of buffers in message.c give each address what was sent to it, newest first.
Mailbox == INSTANCE GvMailbox WITH
  Room   <- MAX_MESSAGES,
  posted <- [a \in Address |-> MessagesTo(message_list[1 - which_buffer], a)],
  held   <- [a \in Address |-> MessagesTo(message_list[which_buffer], a)]

IsMailbox == Mailbox!Spec
==============================================================================
