SPECIFICATION Spec
CONSTANTS
    r1 = r1
    r2 = r2
    r3 = r3
    p1 = p1
    p2 = p2
    p3 = p3
    Requests = {r1, r2, r3}
    Passwords = {p1, p2}
    FirstPassword = p1
    MaxVersion = 2
SYMMETRY MCSymmetry
INVARIANT OldCredentialsRevokedUnlessClobbered
PROPERTY RevokedForGood
