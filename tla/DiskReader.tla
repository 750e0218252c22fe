----------------------------- MODULE DiskReader -----------------------------
(***************************************************************************)
(* What libfs/cdbios.c promises its callers, whatever the drive does: the  *)
(* sectors of the latest request, counted from its first, come one by one. *)
(* A file or a stage has as many as it is long; a stream goes on until its *)
(* callback ends it or, when the game stops it, for one sector at most.    *)
(***************************************************************************)
EXTENDS Integers

CONSTANTS Request,     \* [id, kind, first, length]
          NoRequest

VARIABLES request,     \* the latest one
          given,       \* how many of its sectors have come
          course,      \* "wanted", "stopped", "over", or "torn"
          loose,       \* the read of the request before may still go on
          astray       \* input: the head is at the next of its sectors before it was sent there,
                       \* or the read is being given up

Init == request = NoRequest /\ given = 0 /\ course = "over" /\ loose = FALSE

\* The callers wait for a file or a stage, and for a stream until it is over or stopped.
Make == /\ course # "wanted"
        /\ \E r \in Request : r.id = request.id + 1 /\ request' = r
        /\ given' = 0 /\ course' = "wanted"
        /\ loose' = (course \in {"stopped", "torn"})

Full == given' = request.length

Give == /\ course \in {"wanted", "stopped"} /\ given < request.length
        /\ given' = given + 1
        /\ course' \in CASE Full \/ course = "stopped"  -> {"over"}
                         [] ~Full /\ course = "wanted" -> IF request.kind = "stream"
                                                         THEN {"wanted", "over"} ELSE {"wanted"}
        /\ UNCHANGED <<request, loose>>

Stop == /\ request.kind = "stream" /\ course = "wanted" /\ course' = "stopped"
        /\ UNCHANGED <<request, given, loose>>

Tear == /\ course \in {"wanted", "stopped"} /\ course' = "torn" /\ given' = 0
        /\ astray \/ (loose /\ given = 0)
        /\ UNCHANGED <<request, loose>>

Next == Make \/ Give \/ Stop \/ Tear

Spec == Init /\ [][Next]_<<request, given, course, loose>>
=============================================================================
