\* Logins, password changes, account creation and deletion, over two starts.
SPECIFICATION FairAuthSpec
ACTION_CONSTRAINT Ordered
CONSTANTS
    UserId = {"u1", "u2", "u3"}
    NoticeId = {}
    ReadId = {}
    Username = {"admin", "bob"}
    SeedName = {"admin"}
    Secret = {"s1"}
    Text = {}
    Coarse = FALSE
    MaxTime = 1
    MaxVersion = 9
    Token = {"t1", "t2", "t3"}
    Handler = {"h1", "h2", "h3"}
    MaxRequests = 5
    MaxStarts = 2
INVARIANTS
    AuthTypeOK
    OldPasswordEnded
    VersionsInStep
    DeletedHaveNoSession
PROPERTIES
    Spec
    SessionManagerSpec
    LastAdminFallsToOverlap
    EveryRequestAnswered
