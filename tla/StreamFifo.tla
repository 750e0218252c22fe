----------------------------- MODULE StreamFifo -----------------------------
(***************************************************************************)
(* What a stream promises its users, whatever its buffer does: the blocks  *)
(* of a stream arrive in the order they have on the disk; a user is handed *)
(* the blocks of its own type, the oldest first and each of them once; a   *)
(* block leaves when its user gives it back.  Of a buffer that has been    *)
(* lost it promises nothing.                                               *)
(***************************************************************************)
EXTENDS Integers

CONSTANTS Consumer, Streams

VARIABLES
  stream,   \* the blocks of the stream, by the place where they start
  coming,   \* the blocks that have not arrived,
  fresh,    \* those nobody has taken,
  busy,     \* those their users hold;
  lost      \* whether the buffer has been read over or freed under its users

BlocksOf(s) == {i \in DOMAIN s : s[i].type # "end"}
Of(c, S) == {i \in S : stream[i].type = c}
Oldest(S) == {i \in S : \A j \in S : i <= j}

Init == /\ stream \in Streams
        /\ coming = BlocksOf(stream) /\ fresh = {} /\ busy = {} /\ lost = FALSE

Arrive == /\ \E i \in coming :
               LET new == {j \in coming : j <= i}
               IN coming' = coming \ new /\ fresh' = fresh \cup new
          /\ UNCHANGED <<stream, busy>>

Take(c) == /\ \E i \in Oldest(Of(c, fresh)) : fresh' = fresh \ {i} /\ busy' = busy \cup {i}
           /\ UNCHANGED <<stream, coming>>

Clear(c) == /\ \E i \in Oldest(Of(c, busy)) : busy' = busy \ {i}
            /\ UNCHANGED <<stream, coming, fresh>>

\* Fresh blocks of one type are dropped up to a block of another that its user holds.
Skip(c, d) == /\ Of(c, busy) = {}
              /\ \E e \in Of(d, busy) : fresh' = {i \in fresh : i \in Of(c, fresh) => i > e}
              /\ UNCHANGED <<stream, coming, busy>>

Reopen == /\ busy = {}
          /\ stream' \in Streams
          /\ coming' = BlocksOf(stream') /\ fresh' = {} /\ busy' = {}

Step == \/ Arrive \/ Reopen
        \/ \E c \in Consumer : Take(c) \/ Clear(c) \/ \E d \in Consumer \ {c} : Skip(c, d)

Next == \/ Step /\ UNCHANGED lost
        \/ lost'

Spec == Init /\ [][Next]_<<stream, coming, fresh, busy, lost>>
=============================================================================
