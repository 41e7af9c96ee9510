\* Does the process come up again, whatever became of its accounts?
SPECIFICATION AuthSpec
ACTION_CONSTRAINT Ordered
CONSTANTS
    UserId = {"u1", "u2", "u3"}
    NoticeId = {}
    ReadId = {}
    Username = {"admin", "bob"}
    SeedName = {"admin"}
    Secret = {"s1"}
    Text = {}
    Coarse = FALSE
    MaxTime = 1
    MaxVersion = 9
    Token = {"t1", "t2"}
    Handler = {"h1", "h2"}
    MaxRequests = 6
    MaxStarts = 2
INVARIANTS
    SeedingSucceeds
