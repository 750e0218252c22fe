\* Two addresses, one of them with two receivers; four pausers, two of which
\* share a bit; room for three messages.
CONSTANTS
  a1 = a1
  a2 = a2
  camera = camera
  player = player
  door = door
  menu = menu
  gamed = gamed
  codec = codec
  canceller = canceller
  Address = {a1, a2}
  Actor = {camera, player, door}
  Assistant = {camera}
  Home <- MCHome
  Pauser = {menu, gamed, codec, canceller}
  Late = {canceller}
  Bit <- MCBit
  GV_LEVEL_STOP = {"stop", "error"}
  MAX_MESSAGES = 3
  SendLimit = 4
SPECIFICATION Spec
INVARIANTS NeverTwice NeverLost
PROPERTY IsMailbox
