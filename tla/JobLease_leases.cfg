\* Two workers; the handlers of the first and last job are quicker than their leases, that
\* of the second may outlast it.  Workers crash, also in a commit.
CONSTANTS
    Workers = {w1, w2}
    Jobs = {1, 2, 3}
    Handled = {1, 2}
    Quick = {1, 3}
    MaxCrashes = 2
SPECIFICATION FairSpec
CHECK_DEADLOCK FALSE
INVARIANTS
    LeaseInv
    ClaimsLocked
    OneWorkerPerJob
PROPERTIES
    OutcomeFinal
    FinishedNotReclaimed
    QueuedGetsFinished
