\* Two secrets, an mcp process, two topics: three texts and three other things that happen.
\* The owner may fall silent, so stopping is legal.
SPECIFICATION FairSpec
CONSTANTS
    Names = {"n1", "n2"}
    Workers = {"w"}
    Topics = {"t1", "t2"}
    None = None
    MaxTexts = 3
    MaxEvents = 3
INVARIANTS
    CaptureTypeOK
    ValueStaysOut
PROPERTIES
    OneNamePerWrite
    LoginEnds
CHECK_DEADLOCK FALSE
