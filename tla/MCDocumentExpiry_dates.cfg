SPECIFICATION Spec
CONSTANTS
    Texts = {t1}
    Media = {m1, m2}
    MaxTime = 4
    TicksPerDay = 2
    Null = Null
    Docs = {d1, d2}
    Vehicles = {v1, v2}
    Drivers = {p1, p2}
    v1 = v1
    v2 = v2
    p1 = p1
    p2 = p2
    d1 = d1
    d2 = d2
    m1 = m1
    m2 = m2
    l1 = l1
    Legacy = {l1}
    ReferenceOf <- MadeOf
    FormerLists = {{}, {"notes"}, {"document", "notes"}}
    DriverOf <- Owner
    InitialDocs <- SomeDocs
    Offers <- SomeOffers
    Horizons = {1, 2}
    Queries <- SomeQueries
    MaxDto = 1
    MaxEvents = 2
INVARIANTS TypeOK ExpiryReadsAgree DaysAreExact NoChangeIsNoChange
PROPERTIES ExpiryIsForeseen AcceptKeepsTheRest ReviewerSeesWhatIsApplied
CHECK_DEADLOCK FALSE
