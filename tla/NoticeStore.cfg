\* Every interleaving of the store's methods on two users, two notices.
SPECIFICATION Spec
CONSTANTS
    UserId = {u1, u2}
    NoticeId = {n1, n2}
    ReadId = {r1, r2, r3}
    Username = {alice, bob}
    Secret = {s1}
    Text = {x, y}
    Coarse = FALSE
    MaxTime = 5
    MaxVersion = 1
SYMMETRY Symmetry
INVARIANTS
    TypeOK
    UsernameIndexExact
    ReadCopiesAgree
    ReadsReferToLive
    DraftUnread
    StoreInv
PROPERTIES
    EditMakesUnread
    ReadBySelfOnly
    ReadLostOnlyByChange
    RecordKept
