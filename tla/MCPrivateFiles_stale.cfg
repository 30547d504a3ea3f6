SPECIFICATION Spec
CONSTANTS
    Uploads = {u1, u2}
    Columns = {c1, c2}
    Requests = {r1}
    Photos = {p1}
    Handlers = {h1}
    Documents = Documents
    Null = Null
    u1 = u1
    u2 = u2
    c1 = c1
    c2 = c2
    InitialFiles <- SomePairs
    MaxDto = 1
    MaxEvents = 2
INVARIANTS ExitZeroLeavesNoDeadUrl
