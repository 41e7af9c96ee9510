\* The store with a torn data file, a crash and a second process.
SPECIFICATION RecoverySpec
CONSTANTS
    UserId = {u1, u2}
    NoticeId = {n1}
    ReadId = {r1}
    Username = {alice}
    Secret = {s1}
    Text = {x}
    Coarse = FALSE
    MaxTime = 5
    MaxVersion = 0
    MaxSaves = 1
    MaxStarts = 1
SYMMETRY Symmetry
INVARIANTS
    RecoveryInv
PROPERTIES
    NobodyInheritsReads
    EditStillMakesUnread
