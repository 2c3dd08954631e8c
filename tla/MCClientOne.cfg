SPECIFICATION Spec
CONSTANTS
    app = app
    role = role
    key = key
    Clients = {app}
    Specs <- OneClient
    Ids = {1, 2, 3}
    Foreign = {}
    RoleNames = {role}
    Secrets = {v1, v2}
    SecretNames = {key}
    Elsewhere = {}
    MaxRetries = 2
    MaxEvents = 2
    Disturbances = {"edit", "outage", "realmDeleted", "handDelete", "handMade", "handEdit", "rotation", "fault", "lostAnswer", "crash"}
    None = None
    Absent = Absent
SYMMETRY Symmetric
INVARIANTS IInv
PROPERTIES ManagedSpec  DeletesOnlyCondemned
