SPECIFICATION Spec
CONSTANTS
    top = top
    sub = sub
    Groups = {top, sub}
    Specs <- Circle
    Ids = {1, 2, 3, 4, 5}
    Foreign = {sub}
    MaxRetries = 1
    MaxEvents = 1
    Disturbances = {"edit", "outage", "handDelete", "handEdit", "fault", "lostAnswer", "crash"}
    None = None
    Absent = Absent
INVARIANTS IInv
PROPERTIES DeletesOnlyCondemned
