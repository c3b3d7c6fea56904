SPECIFICATION Spec
CONSTANTS
    author = author
    other = other
    r1 = r1
    r2 = r2
    g1 = g1
    Users = {author, other}
    Author = author
    Requests = {r1, r2}
    Readers = {g1}
    MaxComments = 2
    MaxTrouble = 1
    MaxWrites = 4
SYMMETRY Symmetry
INVARIANT CountsAgree
INVARIANT LikedAsListed
INVARIANT StoriesCounted
INVARIANT CachedIsPublic
INVARIANT FreshUnlessLate
