----------------------------- MODULE MCFsStream -----------------------------
(* The instance of FsStream that TLC checks. *)
EXTENDS FsStream, SequencesExt

\* The stream of blocks whose sizes and types are given, with the end after them.
Laid(blocks) == LET at[k \in 1 .. Len(blocks) + 1] == IF k = 1 THEN 0 ELSE at[k - 1] + blocks[k - 1][1]
                    K(i) == CHOOSE k \in 1 .. Len(blocks) + 1 : at[k] = i
                IN [i \in {at[k] : k \in 1 .. Len(blocks) + 1} |->
                      IF K(i) > Len(blocks) THEN [size |-> 1, type |-> "end"]
                      ELSE [size |-> blocks[K(i)][1], type |-> blocks[K(i)][2]]]
G(n) == <<n, "game">>
S(n) == <<n, "sound">>
MCStreams == <<Laid(<<S(3), G(3), S(2), S(3), G(2), S(3), S(3), G(3), S(3), S(3), G(3), S(2)>>), Laid(<<G(2), S(1)>>)>>
=============================================================================
