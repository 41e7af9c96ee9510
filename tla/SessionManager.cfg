\* Every order of the session manager's methods on two users.
SPECIFICATION Spec
CONSTANTS
    UserId = {u1, u2}
    Token = {t1, t2, t3}
    MaxVersion = 2
SYMMETRY Symmetry
INVARIANTS
    TypeOK
    NoSessionOfRevoked
PROPERTIES
    EndedForGood
    RotationEndsSessions
