----------------------------- MODULE MCCdStage -----------------------------
(* The instance of CdStage that TLC checks: every stage of up to four sections of these. *)
EXTENDS CdStage

Section(mode, files) == [mode |-> mode, files |-> files]
MCSections == {Section("archive", <<2, 1>>), Section("archive", <<1, 2, 2>>), Section("archive", <<1, 5>>),
               Section("sound", <<2>>), Section("sound", <<5>>), Section("cache", <<1, 3, 1>>),
               Section("cache", <<4, 2, 3>>)}
MCLayouts == UNION {[1 .. n -> MCSections] : n \in 1 .. 4}
=============================================================================
