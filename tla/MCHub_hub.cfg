\* A phone, a question, a code and two uploads of two pieces; three sockets of the instance.
SPECIFICATION UploadsFairSpec
CONSTANTS
    Phones = {"p"}
    Codes = {"c"}
    Questions = {"q"}
    Sockets = {1, 2, 3}
    None = None
    MaxEvents = 2
    UploadIds = {"u","v"}
    Chunks = {1, 2}
PROPERTIES
    WholeFile
    Reachable
    AnsweredWithdrawn
