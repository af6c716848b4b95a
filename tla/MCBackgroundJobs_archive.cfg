\* One job of a session that is archived and reopened, across two restarts.
\* Everything may be settled: stopping is legal.
SPECIFICATION Spec
CONSTANTS
    a = a
    Bots = {a}
    NoBot = NoBot
    MaxJobs = 1
    MaxPerBot = 1
    MaxCrashes = 2
    MaxCancels = 2
    MaxArchives = 2
INVARIANTS
    TypeOK
    WakeTellsVerdict
PROPERTIES
    VerdictIsFinal
CHECK_DEADLOCK FALSE
