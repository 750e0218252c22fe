---------------------------- MODULE GvMessageInv ----------------------------
(***************************************************************************)
(* The inductive invariant of GvMessage.                                   *)
(***************************************************************************)
EXTENDS GvMessage

ReadList  == message_list[which_buffer]
WriteList == message_list[1 - which_buffer]

Bodies(list) == {list[i].body : i \in DOMAIN list}

\* Messages to one address stand together; each says how many there are from its place
\* on; and there is a first one.
Stacked(list) ==
  /\ \A i, j \in DOMAIN list :
       list[i].address = list[j].address => i + list[i].len = j + list[j].len
  /\ \A i \in DOMAIN list :
       /\ i + list[i].len <= Len(list) + 1
       /\ \A k \in i .. i + list[i].len - 1 : list[k].address = list[i].address
  /\ \A i \in DOMAIN list : \E f \in DOMAIN list :
       /\ list[f].address = list[i].address
       /\ \A j \in DOMAIN list : list[j].address = list[i].address => f <= j

\* No message is in both buffers, and none that can still be sent has been received.
Unread == /\ Bodies(ReadList) \cap Bodies(WriteList) = {}
          /\ \A b \in Bodies(ReadList) \cup Bodies(WriteList) : b <= sent
          /\ \A u \in Actor : /\ got[u] \cap Bodies(WriteList) = {}
                              /\ \A b \in got[u] : b <= sent

\* The actors that have not run yet are of the group that runs.
Running == /\ todo \subseteq Members(group)
           /\ group = "others" /\ todo # {} => GV_PauseLevel = {}

\* The game is paused by one that runs after the assistants.
Behind == \E q \in open \cap Late : Bit[q] \in GV_PauseLevel

\* Every bit that is on has a pauser; one that runs before the assistants and one
\* that runs after them have paused the game together only if the first stops it.
Paused == /\ \A b \in GV_PauseLevel : \E p \in open : Bit[p] = b
          /\ \A p \in open \ Late, q \in open \cap Late : Bit[p] \in GV_LEVEL_STOP

\* Whether an actor has had its turn since the buffers last changed places.
Served(u) == IF GV_PauseLevel = {} /\ u \in Members(group) THEN u \notin todo
             ELSE IF u \in Assistant THEN Behind \/ (GV_PauseLevel = {} /\ group # "managers")
             ELSE GV_PauseLevel = {} /\ group = "daemon"

\* Those that have had it have all their messages; the others have none of them.
Turns == \A u \in Actor : IF Served(u) THEN Held(u) \subseteq got[u] ELSE Held(u) \cap got[u] = {}

IInv == /\ TypeOK
        /\ \A i \in {0, 1} : Stacked(message_list[i])
        /\ Unread /\ Running /\ Paused /\ Turns
=============================================================================
