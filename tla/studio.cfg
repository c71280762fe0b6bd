SPECIFICATION StudioSpec
CONSTANTS
    Budget = 2
    Estimate = 1
    MaxCost = 2
    Costs = {0, 2}
    Overlap = 1
    Photos = {p1, p2}
    EditRuns = {r1, r2}
    Pressers = {t1}
    EditIncidents = 3
    Pictures = {p1, p2}
    Reviews = {v1, v2}
    ReviewIncidents = 3
    TagAssets = {a, b, c, d, e}
    Arriving = {c, d}
    Taught = {a}
    Alike <- LooksAlike
    ByWords = {a, b, c, d, e}
    Learners = {l1, l2}
    MaxPending = 1
    TagIncidents = 1
    a = a
    b = b
    c = c
    d = d
    e = e
    p1 = p1
    p2 = p2
    r1 = r1
    r2 = r2
    t1 = t1
    v1 = v1
    v2 = v2
    l1 = l1
    l2 = l2
CHECK_DEADLOCK FALSE
PROPERTIES
    CallersKeepCap
    EditKept
    TagsKept
    StudioEnds
