CONSTANTS
    Docs = {d1}
    Requests = {r1}
    Handlers = {h1}
    Kinds = {"SCHEDULE"}
    Values = {Null, v1}
    Null = Null
SPECIFICATION Spec
SYMMETRY Symmetric
CHECK_DEADLOCK FALSE
INVARIANT PendingCanBeReviewed
