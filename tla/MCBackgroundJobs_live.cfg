\* Liveness across a restart, one job behind the other, and no process without a supervisor.
\* Everything may be settled: stopping is legal.
SPECIFICATION FairSpec
CONSTANTS
    a = a
    Bots = {a}
    NoBot = NoBot
    MaxJobs = 2
    MaxPerBot = 1
    MaxCrashes = 1
    MaxCancels = 0
    MaxArchives = 0
INVARIANTS
    RunningCap
    FinishIsReported
    NoOrphan
PROPERTIES
    EveryJobSettles
CHECK_DEADLOCK FALSE
