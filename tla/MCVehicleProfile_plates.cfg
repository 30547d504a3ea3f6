CONSTANTS
    Vehicles = {v1, v2}
    Drivers = {a}
    Requests = {r1,r2}
    Handlers = {h1, h2}
    Fields = {"plateNumber"}
    Plates = {p1, p2}
    Details = {x}
    Null = Null
SPECIFICATION Spec
SYMMETRY Symmetric
CHECK_DEADLOCK FALSE
INVARIANTS TypeOK PlatesUnique RequestsHaveVehicle
PROPERTIES AcceptWritesOnlyProposal RequestsFollowLifecycle
