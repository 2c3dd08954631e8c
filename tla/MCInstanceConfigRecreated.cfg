SPECIFICATION Spec
CONSTANTS
    Dependents = {d1}
    Settings = {old, new}
    MaxEvents = 3
    Disturbances = {"delete", "recreate"}
    NoClient = NoClient
    Absent = Absent
INVARIANTS ClientsFollowTheConfig
