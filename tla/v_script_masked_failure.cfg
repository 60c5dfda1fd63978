CONSTANTS
    h1 = h1
    h2 = h2
    h3 = h3
    h4 = h4
    p1 = p1
    p2 = p2
    p3 = p3
    p4 = p4
    a = a
    b = b
    x = x
    y = y
    Comment = Comment
    NONE = NONE
    PARTIAL = PARTIAL
    Hashes = {h1, h2, h3, h4}
    Paths = {p1, p2, p3, p4}
    Names = {a, b}
    Columns = {x, y}
    BaseName <- MCBaseName
    Listings <- MCListings
    FileListExit = 0
    CanFail = TRUE
SPECIFICATION Spec
INVARIANT
    ExitStatusReflectsFailure
