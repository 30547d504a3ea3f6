CONSTANTS
    Vehicles = {v1}
    Drivers = {a}
    Requests = {r1}
    Handlers = {h1, h2}
    Fields = {"plateNumber", "isActive", "details"}
    Plates = {p1, p2}
    Details = {x, y}
    Null = Null
SPECIFICATION Spec
SYMMETRY Symmetric
CHECK_DEADLOCK FALSE
PROPERTY DriversChangeOnlyUnapproved
