SPECIFICATION FairSpec
CONSTANTS
    p1 = p1
    p2 = p2
    p3 = p3
    Callers = {p1, p2, p3}
    Configs = {"kc", "kc-prod"}
    Versions = {1, 2}
    Objects <- MCObjects
    Extends <- NoExtension
    NoClient = NoClient
    NoOne = NoOne
INVARIANTS TypeOK LockDiscipline SomeoneCanMove AtMostOneClientPerConfig NoDuplicateLogin AnswersTheSettingsAsked
PROPERTIES RegistrySpec EvictionIsLocal CallsReturn
