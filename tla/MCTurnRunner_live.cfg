\* Liveness of General, whose timeout queues a notice without a kick, under
\* the fairness of the Go scheduler and of engines that end.  The owner does not use /stop.
\* An idle daemon with an empty queue waits for input: stopping is legal.
SPECIFICATION FairSpec
CONSTANTS
    General = General
    Bots = {General}
    NoBot = NoBot
    Telegram = Telegram
    Phone = Phone
    Backend = Backend
    Handlers = {Telegram, Phone, Backend}
    OwnerStops = FALSE
    MaxTurns = 2
    MaxQuestions = 1
    MaxAttempts = 2
    MaxCrashes = 1
INVARIANTS
    NoLostWakeup
PROPERTIES
    QueuedTurnServed
CHECK_DEADLOCK FALSE
