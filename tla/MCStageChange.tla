--------------------------- MODULE MCStageChange ---------------------------
EXTENDS StageChange, TLC
CONSTANTS vox, scene, next, order, ready, call, last
MCStreams == {vox, scene, next, order, ready, call, last}
MCHeaders == (vox :> <<"subtitle", "sound">>) @@ (scene :> <<"demo", "sound">>)
             @@ [s \in {next, order, ready, call, last} |-> <<"sound">>]
MCWaits == {ready, last}
MCWithProc == {vox, scene, order}
MCDoes == (vox :> next) @@ [s \in {scene, order} |-> "load"]
MCVoices == {vox, order, ready}
MCDemos == {scene}
=============================================================================
