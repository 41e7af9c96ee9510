\* Is the data file a snapshot of one instant?
SPECIFICATION FileSpec
CONSTANTS
    Handler = {h1, h2}
    Main = main
    MaxWrites = 2
    MaxFailures = 0
    MaxStarts = 0
INVARIANTS
    FileIsSnapshot
