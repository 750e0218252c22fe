SPECIFICATION FairSpec
INVARIANTS RingFree CallbackOnce ResetSafe
PROPERTY StageCompletes

CONSTANTS
  vox = vox
  scene = scene
  next = next
  order = order
  ready = ready
  call = call
  last = last
  None = None
  Streams <- MCStreams
  Headers <- MCHeaders
  Waits <- MCWaits
  WithProc <- MCWithProc
  Does <- MCDoes
  Voices <- MCVoices
  Demos <- MCDemos
  Call = call
  GameOverVox = last
  CancelDoes = "load"
  GameOverDelay = 3
  MaxStreams = 2
  MaxLoads = 1
  MaxErrors = 1
CHECK_DEADLOCK FALSE
