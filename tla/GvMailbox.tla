------------------------------ MODULE GvMailbox ------------------------------
(***************************************************************************)
(* What the message service of libgv promises to the actors of the game:  *)
(* what is sent to an address during one frame is what every actor that   *)
(* asks for that address gets during the next one, newest first.  It has  *)
(* room for a fixed number of messages per frame, over all addresses.     *)
(***************************************************************************)
EXTENDS Naturals, Sequences, FiniteSets

CONSTANTS Address, Body, Room

VARIABLES posted,   \* by address, what was sent in this frame, newest first
          held,     \* by address, what can be received in this frame
          rejected  \* whether the last message sent found no room

mail == <<posted, held, rejected>>

NoMail == [a \in Address |-> <<>>]

\* Number of messages of a box, one pair (address, place) for each of them.
Count(box) == Cardinality(UNION {{a} \X DOMAIN box[a] : a \in Address})

Init == posted = NoMail /\ held = NoMail /\ rejected = FALSE

Post(a, b) == /\ Count(posted) < Room
              /\ posted' = [posted EXCEPT ![a] = <<b>> \o @]
              /\ rejected' = FALSE
              /\ UNCHANGED held

Reject == /\ Count(posted) = Room
          /\ rejected' = TRUE
          /\ UNCHANGED <<posted, held>>

\* A frame ends: what was sent becomes what is received.
Turn == /\ held' = posted
        /\ posted' = NoMail
        /\ UNCHANGED rejected

Reset == /\ posted' = NoMail
         /\ held' = NoMail
         /\ UNCHANGED rejected

Next == \/ \E a \in Address, b \in Body : Post(a, b)
        \/ Reject
        \/ Turn
        \/ Reset

Spec == Init /\ [][Next]_mail
==============================================================================
