SPECIFICATION FairSpec
CONSTANTS
    admin = admin
    RealmRoles = {admin}
    Specs <- OneRole
    Ids = {1, 2, 3}
    Foreign = {}
    MaxRetries = 2
    MaxEvents = 2
    Disturbances = {"edit", "outage", "realmDeleted", "handDelete", "handMade", "handEdit", "fault", "lostAnswer", "crash"}
    None = None
    Absent = Absent
INVARIANTS IInv
PROPERTIES ManagedSpec  DeletesOnlyCondemned ConvergesOrAsks DeletionCompletes
