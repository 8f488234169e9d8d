CONSTANTS
    NFiles = 2
    Runs <- MCRuns
SPECIFICATION Spec
PROPERTY AllFetched
CHECK_DEADLOCK FALSE
