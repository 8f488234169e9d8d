CONSTANTS
    Programs <- MCPrograms
    MaxAddrs = 2
    Words = {0, 1, 65535}
SPECIFICATION MCSpec
INVARIANTS LegalCalls  NoZombies ThreadsClean ResultExact RoundTrip LongestZeros
CHECK_DEADLOCK FALSE
