\* A code that is minted over a standing connection, and expires.
SPECIFICATION UploadsSpec
CONSTANTS
    Phones = {"p"}
    Codes = {"c"}
    Questions = {"q"}
    Sockets = {1, 2, 3}
    None = None
    MaxEvents = 2
    UploadIds = {"u"}
    Chunks = {1}
PROPERTIES
    AdvertisedUntilExpiry
