SPECIFICATION Spec
CONSTANTS
    app = app
    role = role
    key = key
    Clients = {app}
    Specs <- OneClient
    Ids = {1}
    Foreign = {}
    RoleNames = {role}
    Secrets = {v1, v2}
    SecretNames = {key}
    Elsewhere = {}
    MaxRetries = 1
    MaxEvents = 1
    Disturbances = {"edit"}
    None = None
    Absent = Absent
PROPERTIES PublicLeavesNoSecret
