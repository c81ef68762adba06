CONSTANTS
  parent = parent
  dll = dll
  main = main
  NoRun = NoRun
  Processes <- MCProcesses
  Modules <- MCModules
  HasTls = {dll}
  EntryRuns <- MCEntryRuns
  Threads = {t1}
  MaxRuns = 2
  MaxApiCalls = 1
  MaxInstructions = 0
  RunTime = 2
  TotalTime = 2
  MaxLate = 1
  MaxFrames = 1
SPECIFICATION Spec
PROPERTIES
  UnsupportedApiIsReported
