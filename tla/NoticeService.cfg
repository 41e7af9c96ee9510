\* Two handlers over one administrator, one resident and one notice.
SPECIFICATION FairServiceSpec
ACTION_CONSTRAINT Ordered
CONSTANTS
    UserId = {"u1", "u2"}
    NoticeId = {"n1"}
    ReadId = {"r1", "r2"}
    Username = {"alice", "bob"}
    Secret = {"s1"}
    Text = {"x", "y"}
    Coarse = FALSE
    MaxTime = 10
    MaxVersion = 0
    Handler = {"h1", "h2"}
    MaxRequests = 8
INVARIANTS
    ServiceTypeOK
PROPERTIES
    Spec
    OnlyEditsRewrite
    RepeatedStatusOnlyIfOvertaken
    DeletedStaysDeleted
    LookTruthful
    EveryRequestAnswered
