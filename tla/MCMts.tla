-------------------------------- MODULE MCMts --------------------------------
(***************************************************************************)
(* Instances of the scheduler for TLC: who calls what in each run.         *)
(***************************************************************************)
EXTENDS MtsInv

Nobody == {}

\* Messages, and starting and ending tasks: 2 boots, 1 serves, 3 and 4 come and go.
MsgSends    == {<<3, 2>>, <<4, 2>>, <<3, 1>>}
MsgReceives == {<<2, ANY>>, <<2, 4>>, <<1, ANY>>, <<1, 3>>}
MsgStarts   == {<<2, 1>>, <<2, 3>>, <<3, 4>>}
MsgQuitters == {3, 4}

\* Interrupts, sleep and wake-up: 1 receives interrupts, counts them, is told to stop
\* waiting by 2, and wakes 3, as 2 does, which sleeps, waits for blanks, ends and is started again.
IntReceives == {<<1, INTR>>, <<1, INTR2>>}
IntStarts   == {<<2, 1>>, <<2, 3>>}
IntWakes    == {<<1, 3>>, <<2, 3>>}
IntResets   == {<<2, 1>>}
IntSleepers == {3}
IntQuitters == {3}
IntVbl      == {2, 3}
IntIrqs     == {1}

\* The vertical blank and semaphores: two of them, two tasks each; the callback of 2
\* may refuse the wake-up; 3 ends and is started again.
SemLocks    == {<<1, 0>>, <<2, 0>>, <<2, 1>>, <<3, 1>>}
SemStarts   == {<<2, 1>>, <<2, 3>>}
SemVbl      == {1, 2, 3}
SemRefuse   == {2}
SemQuitters == {3}
\* ... one, shared by the most and the least urgent task, the other in between.
SemLocks2   == {1, 3} \X {0}

\* A wake-up of a more urgent task, which receives as well as sleeps.
UpWakes    == {<<2, 1>>, <<3, 1>>}
UpStarts   == {<<2, 1>>, <<2, 3>>}
UpSleepers == {1}
UpReceives == {<<1, ANY>>}
UpVbl      == {2}
=============================================================================
