SPECIFICATION FairSpec
CONSTANTS
    r1 = r1
    r2 = r2
    Realms = {r1, r2}
    Names = {"one", "two"}
    NameOf <- Distinct
    Settings = {red, blue}
    MaxRetries = 2
    MaxEvents = 2
    Disturbances <- AllButHandDelete
    None = None
    Absent = Absent
INVARIANTS IInv ReadyRealmExists
PROPERTIES ManagedSpec DeletesOnlyCondemned Converges DeletionCompletes
