SPECIFICATION Spec
CONSTANTS
    p1 = p1
    p2 = p2
    p3 = p3
    Callers = {p1, p2}
    Configs = {"kc", "kc-prod"}
    Versions = {1, 2}
    Objects <- MCObjects
    Extends <- PrefixExtension
    NoClient = NoClient
    NoOne = NoOne
PROPERTIES EvictionIsLocal
