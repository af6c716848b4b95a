\* General with the Telegram poller and the machine inputs: /stop, questions, the
\* 60 second cap, engine retries and a crash.
\* An idle daemon with an empty queue waits for input: stopping is legal.
SPECIFICATION Spec
CONSTANTS
    General = General
    Bots = {General}
    NoBot = NoBot
    Telegram = Telegram
    Phone = Phone
    Backend = Backend
    Handlers = {Telegram, Backend}
    OwnerStops = TRUE
    MaxTurns = 3
    MaxQuestions = 1
    MaxAttempts = 2
    MaxCrashes = 1
INVARIANTS
    TypeOK
    OneRunningTurn
    RunningIsOldest
    ExecutedByOneTurn
PROPERTIES
    LostOnlyInCrash
    DoneIsFinal
CHECK_DEADLOCK FALSE
