------------------------------ MODULE MCDgFrame ------------------------------
(* The instance of DgFrame that TLC checks. *)
EXTENDS DgFrame

MCSize == [n \in Names |-> IF n = "c" THEN 2 ELSE 1]

\* b stays in view while a goes and c comes: their heap gets holes.
MCViews == {{}, {"a", "b"}, {"b", "c"}}

\* Every event of the system, and the blocks it bears on.
MCScenes == {{"a", "b", "c", "map"}, {"a", "free", "undraw", "late"},
             {"p", "w", "undraw", "late"}, {"p", "undraw", "readError"},
             {"a", "codec", "stop"}, {"a", "late", "change"}, {"p", "w", "late", "change"}}
=============================================================================
