\* Writes and saves of two handlers, failing saves, kills and restarts.
SPECIFICATION FairFileSpec
ACTION_CONSTRAINT Ordered
CONSTANTS
    Handler = {"h1", "h2"}
    Main = "main"
    MaxWrites = 3
    MaxFailures = 1
    MaxStarts = 1
INVARIANTS
    FileTypeOK
    AnsweredIsDurable
    LaterCopiesAreNewer
PROPERTIES
    ImplementsDurableStore
    SaveCarriesAnswered
    SavesEnd
