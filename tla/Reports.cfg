\* One report over two accounts and two notices while the store goes on.
SPECIFICATION ReportSpec
CONSTANTS
    UserId = {u1, u2}
    NoticeId = {n1, n2}
    ReadId = {r1, r2}
    Username = {alice, bob}
    Secret = {s1}
    Text = {0, 1}
    Priority <- TextsAreNumbers
    Limits = {0, 1}
    MaxPage = 1
    Coarse = FALSE
    MaxTime = 5
    MaxVersion = 0
SYMMETRY Symmetry
INVARIANTS
    CountsBracketed
PROPERTIES
    ListIsTheTop
