SPECIFICATION FairSpec
CONSTANTS
    Dependents = {d1, d2}
    Settings = {old, new}
    MaxEvents = 3
    Disturbances <- AllButRecreate
    NoClient = NoClient
    Absent = Absent
INVARIANTS IInv ClientsFollowTheConfig
PROPERTIES ReadyWasEarned BecomesReady NoticesFailure
