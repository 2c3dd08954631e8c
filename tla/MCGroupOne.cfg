SPECIFICATION FairSpec
CONSTANTS
    top = top
    sub = sub
    Groups = {top}
    Specs <- OneGroup
    Ids = {1, 2, 3}
    Foreign = {}
    MaxRetries = 2
    MaxEvents = 2
    Disturbances = {"edit", "outage", "realmDeleted", "handDelete", "handMade", "fault", "lostAnswer", "crash"}
    None = None
    Absent = Absent
PROPERTIES ManagedSpec  DeletionCompletes
