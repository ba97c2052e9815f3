SPECIFICATION Spec
CONSTANTS Paths = {"a", "b", "c"}
          FilesOf <- MCFilesOf
          Droppable = FALSE
          MaxRuns = 3
          MaxKills = 2
          MaxFaults = 1
          MaxEdits = 1
CHECK_DEADLOCK FALSE
INVARIANTS Coherent
PROPERTIES Spared SaidIsSo  Implements
