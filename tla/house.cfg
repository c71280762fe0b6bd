SPECIFICATION HouseSpec
CONSTANTS
    d1 = d1
    d2 = d2
    x = x
    z = z
    dad = dad
    p1 = p1
    p2 = p2
    Detections = {d1, d2}
    Shows <- ShowsTwo
    Lookalike <- XLikeZ
    Persons = {p1, p2}
    Names = {dad}
    Slug <- SlugOfNames
    Tabs = {t1}
    MinLoose = 2
    PeopleIncidents = 4
    Rounds = {r1, r2, r3}
    Editors = {e1, e2}
    Viewers = {w1}
    DevelopIncidents = 5
    Paths = {"p", "q"}
    WatchIncidents = 3
    MaxEvents = 2
    Records = {"media", "photos"}
    Addresses = {"a1", "a2"}
    Hosts = {"nas"}
    Callers = {"c1", "c2"}
    RemoteIncidents = 3
CHECK_DEADLOCK FALSE
PROPERTIES
    PeopleCorrect
    DevelopCorrect
    HouseSettles
    RemoteCorrect
