SPECIFICATION Spec
CONSTANTS
    b1 = b1
    q1 = q1
    q2 = q2
    i1 = i1
    i2 = i2
    k1 = k1
    k2 = k2
    Browser = {b1}
    Request = {q1, q2}
    Id = {i1, i2}
    Token = {k1, k2}
    Lifetime = 1
    MaxNow = 2
    None = None
INVARIANTS
    SessionsInv
PROPERTIES
    OneSubject
    LiveIsKept
    SweptClean
SYMMETRY MCSymmetry
