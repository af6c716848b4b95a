\* A worker fed by the phone, which listens before recovery, and by the machine:
\* archiving and unarchiving, routines and a crash.
\* An idle daemon with an empty queue waits for input: stopping is legal.
SPECIFICATION Spec
CONSTANTS
    General = General
    w = w
    Bots = {w}
    NoBot = NoBot
    Telegram = Telegram
    Phone = Phone
    Backend = Backend
    Handlers = {Phone, Backend}
    OwnerStops = TRUE
    MaxTurns = 3
    MaxQuestions = 0
    MaxAttempts = 1
    MaxCrashes = 1
INVARIANTS
    NoZombieTurn
CHECK_DEADLOCK FALSE
