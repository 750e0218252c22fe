\* Two lists, gvd.c and three blocks for actors, two of them made per frame.
CONSTANTS
  gvd = gvd
  a = a
  b = b
  c = c
  NULL = NULL
  Actor = {gvd, a, b, c}
  Daemon = gvd
  GV_ACTOR_LEVEL = 2
  pause_level <- MCPause
  kill_level <- MCKill
  PauseBit = {"stop"}
  Kills = {4}
  NewLimit = 2
SPECIFICATION FairSpec
INVARIANTS ListsWhole LoopOnList HoldsMemory ComesToAll
PROPERTY MarkedLeaves
