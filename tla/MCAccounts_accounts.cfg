\* Two addresses and two sandboxes: the doctor, the owner, a login, `ccc profile`, a turn.
\* The doctor goes round for ever: there is no deadlock to allow.
SPECIFICATION FairSpec
CONSTANTS
    e1 = e1
    e2 = e2
    d0 = d0
    d1 = d1
    Emails = {e1, e2}
    Added = e1
    Default = Default
    Dirs = {d0, d1}
    Home = d0
    None = None
    MaxAttempts = 2
    MaxTurns = 1
    MaxEvents = 1
INVARIANTS
    RefusedOnce
PROPERTIES
    AccountStays
    NotBenchedForever
