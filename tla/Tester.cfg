SPECIFICATION FairSpec
CONSTANTS
    NumFunctions = 2
    MaxPolls = 2
    MaxDozzles = 2
INVARIANTS TypeOK CleanExit DozzleAccounted OneDeployment
PROPERTIES CommandsResolved QuitEnds
CHECK_DEADLOCK FALSE
