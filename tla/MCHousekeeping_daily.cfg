\* One session: a watch, or a schedule and a conversation, or three memories and a day.
\* With the bounds of the memories used up nothing is left to do: stopping is legal.
SPECIFICATION FairSpec
CONSTANTS
    c1 = c1
    c2 = c2
    v1 = v1
    v2 = v2
    Commands = {c1, c2}
    Values = {v1, v2}
    None = None
    MaxRows = 3
    MaxFirings = 2
    MaxEvents = 3
    MaxFacts = 3
    Threshold = 1
    MaxDays = 1
INVARIANTS
    HousekeepingTypeOK
    BaselineKnown
    ChangeOfOneCommand
    FiredOnce
    MemoriesKept
PROPERTIES
    RotationSparesQuestion
    DueFires
CHECK_DEADLOCK FALSE
