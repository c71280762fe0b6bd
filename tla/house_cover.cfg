SPECIFICATION HouseSpec
CONSTANTS
    d1 = d1
    d2 = d2
    d3 = d3
    x = x
    z = z
    dad = dad
    mum = mum
    p1 = p1
    p2 = p2
    t1 = t1
    Detections = {d1, d2, d3}
    Shows <- ShowsItself
    Lookalike <- AllAlike
    Persons = {p1, p2}
    Names = {dad, mum}
    Slug <- SlugIsName
    Tabs = {t1}
    MinLoose = 2
    PeopleIncidents = 3
    Rounds = {}
    Editors = {}
    Viewers = {}
    DevelopIncidents = 0
    Paths = {"p"}
    WatchIncidents = 0
    MaxEvents = 1
    Records = {"media"}
    Addresses = {"a1"}
    Hosts = {"nas"}
    Callers = {}
    RemoteIncidents = 0
SYMMETRY Interchangeable
CHECK_DEADLOCK FALSE
INVARIANT NoGuessedCover
