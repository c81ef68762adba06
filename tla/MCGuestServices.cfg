CONSTANTS
  MaxInterrupts = 2
  KeyPaths = {"r", "p", "s", "w", "b"}
  Root = "r"
  Parent <- MCParent
  Matches <- MCMatches
  Config = {"p", "s", "b"}
  MaxKeys = 4
  MaxKeyHandles = 2
  MaxBytes = 1
  Answer = 2
  NameLen = 1
  MaxNet = 4
  MaxSockets = 3
  MaxRoom = 3
  MaxSlots = 2
  MaxAllocs = 3
  Threads = {1, 2}
  TLS_SLOT_COUNT = 1
  MaxFls = 2
  AtomNames = {"a", "b"}
  MaxAtoms = 3
  MaxCount = 2
  MaxTicks = 24
  Word = 2
  MaxIds = 2
  NumPages = 3
  virtual_mem_base = 1
  MaxMaps = 2
  MaxPages = 2
  Reserved = {0}
  Perms = {"ro", "rwx"}
  MaxText = 2
  MaxBuffer = 5
  MAX_PATH = 2
  IrpOrder <- MCIrpOrder
  MaxExports = 1
  max_runs = 1
  MaxThreads = 1
  MaxDevices = 3
  DeviceNames = {"d"}
  LinkNames = {"l"}
  MaxPool = 1
  KernelProcesses = {"system", "p"}
  MaxFunctions = 4
  MaxArrays = 3
  FirstRoom = 1
  MaxCalls = 3
  Initializers <- MCInitializers
  MaxInstalls = 2
SPECIFICATION Spec
VIEW View
CHECK_DEADLOCK FALSE
INVARIANTS
  TypeOK
  ServicesKeepTheirState
  LoadsAreWhole
  CalledOnce
  ChildIsHeard
PROPERTIES
  BuffersAreRespected
  CallsEndRight
