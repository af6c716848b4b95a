\* General and a worker: instructions, reports, idle reminders, a time-out, a restart.
\* With nothing queued the daemon waits for input: stopping is legal.
SPECIFICATION FairSpec
CONSTANTS
    General = General
    w = w
    Workers = {w}
    Boot = Boot
    Scheduler = Scheduler
    None = None
    MaxTurns = 6
    MaxInputs = 1
    MaxMessages = 2
    MaxCrashes = 1
INVARIANTS
    DeliveredOnce
    MarkedReportHeard
    HandedOverOnce
PROPERTIES
    OneReportPerTurn
    EveryMessageDelivered
CHECK_DEADLOCK FALSE
