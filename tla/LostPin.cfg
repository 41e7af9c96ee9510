\* An edit that overlaps a pin or a status change: does it undo them?
SPECIFICATION FairServiceSpec
CONSTANTS
    UserId = {u1, u2}
    NoticeId = {n1}
    ReadId = {r1, r2}
    Username = {alice, bob}
    Secret = {s1}
    Text = {x, y}
    Coarse = FALSE
    MaxTime = 8
    MaxVersion = 0
    Handler = {h1, h2}
    MaxRequests = 5
PROPERTIES
    EditTouchesOnlyWhatItAsks
