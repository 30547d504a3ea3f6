CONSTANTS
    Docs = {d1}
    Requests = {r1}
    Handlers = {h1}
    Kinds = {"INSPECTION", "INSURANCE", "PCO_DOCUMENT", "PERMISSION_LETTER", "SCHEDULE", "LOG_BOOK_V5"}
    Values = {Null, x, y}
    Null = Null
SPECIFICATION Spec
SYMMETRY Symmetric
CHECK_DEADLOCK FALSE
PROPERTIES AcceptWritesOnlyProposal DriversMutateOnlyUnlocked ResubmissionIsQueued DecidedOnlyOnAcceptedTarget DecisionsAreFinal
