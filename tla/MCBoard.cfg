CONSTANTS
  Cards <- AllCards
  Lines <- SomeLines
  SMP = FALSE
  NBuses = 2
  Slots = 2
  Chips <- SomeChips
  Callers = {"ioctl", "alsa"}
  VpxLines = {3, 8}
  MaxPolls = 2
  MaxOps = 2
  MaxFails = 2
  BlockSize = 2
  CardLen = 11
  PoolStart = 5
  Skip = 2
  Ring = 2
  Sizes <- SmallSizes
  Funcs = {f1, f2}
  Nodes = {n1, n2, n3}
  Processes = {a, b}
  Parallel = FALSE
  MemWords = 6
  RingBase = 1
  RingSizes = {2, 4}
  LineWords = 1
  MaxFrames = 9
  AudioCards = {"MDP100", "MDP120", "WINTV"}
  Modes = {0, 1}
  Bases = {1, 6}
  BufferLen = 4
  MaxOpens = 2
  Sources = {240, 480, 512, 720, 1080, 1280, 1920}
SPECIFICATION BoardSpec
CHECK_DEADLOCK FALSE
INVARIANTS BoardTypeOK PinsKept TableIsSound WritesReachAudio LandsExactly PoolIsSound
  BufferOwned AudioAsAsked ShownIsReady PictureExact
PROPERTIES EveryoneOnce ModeKept NearerTheEnd FirstFit ImplementsQueue
  CalledAsRegistered ImplementsBag
