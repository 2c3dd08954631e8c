SPECIFICATION Spec
CONSTANTS
    top = top
    sub = sub
    Groups = {top, sub}
    Specs <- Family
    Ids = {1, 2, 3, 4, 5}
    Foreign = {}
    MaxRetries = 2
    MaxEvents = 1
    Disturbances = {"handDelete"}
    None = None
    Absent = Absent
PROPERTIES ReadyGroupIsInItsPlace
