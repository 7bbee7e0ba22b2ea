SPECIFICATION FairSpec
CONSTANTS
    h1 = h1
    h2 = h2
    j1 = j1
    j2 = j2
    j3 = j3
    Harts = {h1, h2}
    Jobs = {j1, j2, j3}
    Zero = Zero
    Junk = Junk
    LoadsOrdered = TRUE
    WakesRunning = FALSE
INVARIANTS
    JobsRunOnce
PROPERTIES
    WokenRuns
