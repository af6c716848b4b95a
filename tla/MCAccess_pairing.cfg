\* Three strangers and a queue of two: codes expire and are refreshed, the owner decides.
\* Without a code left to mint and a decision to take nothing need happen: stopping is legal.
SPECIFICATION Spec
CONSTANTS
    u1 = u1
    u2 = u2
    u3 = u3
    Users = {u1, u2, u3}
    maxPendingPairs = 2
    maxPairReplies = 2
    MaxCodes = 5
INVARIANTS
    RepliesBounded
PROPERTIES
    BlockStands
CHECK_DEADLOCK FALSE
