CONSTANTS
  parent = parent
  child = child
  data = data
  main3 = main3
  main1 = main1
  main2 = main2
  NoRun = NoRun
  Processes <- MCProcesses
  Modules <- MCModules
  HasTls = {}
  EntryRuns <- MCEntryRuns
  Threads = {}
  MaxRuns = 2
  MaxApiCalls = 0
  MaxInstructions = 1
  RunTime = 1
  TotalTime = 2
  MaxLate = 1
  MaxFrames = 0
SPECIFICATION FairSpec
PROPERTIES
  TotalTimeEndsAll
  Termination
