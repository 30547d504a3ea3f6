SPECIFICATION Spec
CONSTANTS
    RichDocs = {d1}
    LogBooks = {l1, l2, l3}
    Optional = Optional
    Handlers = {h1, h2}
    Null = Null
    MaxEvents = 5
SYMMETRY Symmetry
INVARIANTS TypeOK ToldOnce NoReasonOfThePast UpsertsShareARow
CHECK_DEADLOCK FALSE
