SPECIFICATION GuestSpec
VIEW View
CHECK_DEADLOCK FALSE
CONSTANTS
  Names = {"a", "a/", "l"}
  ProcessName = "b"
  Stripped <- MCStripped
  Links <- MCLinks
  MaxObjects = 6
  MaxHandles = 3
  MaxRefs = 2
  MaxWalk = 1
  max_runs = 1
  Paths = {"a", "c"}
  FullPath = {"c"}
  Default = {}
  Directories = {"a"}
  ImagePath = "i"
  ImageAlias = "a"
  MaxFiles = 3
  MaxFileHandles = 3
  MaxSize = 1
  MaxWritten = 1
  MaxFds = 3
  MaxStreams = 2
  MaxViews = 2
  Room <- MCRoom
INVARIANTS
  GuestTypes
  ObjectsStay
  FilesAreListed
PROPERTIES
  HandlesKeepTheirMeaning
