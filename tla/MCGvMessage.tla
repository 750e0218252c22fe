----------------------------- MODULE MCGvMessage -----------------------------
(***************************************************************************)
(* Instance of GvMessage for TLC: the camera (an assistant) and the player *)
(* ask for one address, a door for the other; the menu, the codec and     *)
(* gamed.c pause the game before the assistants run, a demo canceller     *)
(* after them.                                                            *)
(***************************************************************************)
EXTENDS GvMessage

CONSTANTS a1, a2, camera, player, door, menu, gamed, codec, canceller

MCHome == (camera :> a1) @@ (player :> a1) @@ (door :> a2)
MCBit  == (menu :> "menu") @@ (gamed :> "error") @@ (codec :> "stop") @@ (canceller :> "menu")
==============================================================================
