SPECIFICATION Spec
CONSTANTS
    IrpOrder <- MCIrpOrder
    MaxExports = 1
    max_runs = 1
    MaxThreads = 1
    MaxDevices = 3
    DeviceNames = {"d"}
    LinkNames = {"l"}
    MaxPool = 1
    Processes = {"system", "p"}
VIEW View
CHECK_DEADLOCK FALSE
INVARIANTS
    ExportsRun
