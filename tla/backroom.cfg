SPECIFICATION BackroomSpec
CONSTANTS
    pic1 = pic1
    pic2 = pic2
    pic3 = pic3
    ann = ann
    ben = ben
    Photos = {pic1, pic2, pic3}
    Persons = {ann, ben}
    Taken <- TheTaken
    Shows <- TheShows
    Merits = {1, 2}
    SlideCounts = {1, 2}
    Paces <- ThePaces
    Fps = 24
    Renderers = {w1, w2}
    Presses = 1
    Deaths = 1
    Shares <- TheShares
    FolderNames = {"intel", "apr", "promo", "raw", "f", "Z", "P", "Q", "reels"}
    Stripped <- NoneDotted
    DiskFiles <- TheDiskFiles
    Parents <- TheParents
    Profiles = {"win", "mac"}
    MapsTo <- TheMaps
    MergeIncidents = 5
    Pictures <- ThePictures
    OnDrive <- OnTheDrive
    ShootNames <- TheShootNames
    Numbers = {"111", "113"}
    Alike <- TheLikenesses
    Passes = {"t1", "t2"}
    PairIncidents = 1
    Candidates <- Views
    NewCandidates = {"a2"}
    AssetOf <- TheAssets
    FolderOf <- TheFolders
    FolderOrder <- TheFolderOrder
    Collections = {"Social"}
    FixOf <- TheFixes
    NoFix = 99
    AlongTheLine <- TheLine
    SamePlace = 2
    GroundViews = {"a2"}
    BestFirst <- TheBest
    Good = {"v1", "a1", "b1", "d1", "a2"}
    Nears <- TheNears
    Admitted <- TheKinds
    Places = 2
    Alternates = 3
    ShortlistLength = 6
    Limits = {{}, {"D"}}
    Batches = {"m1", "m2"}
    Browsers = {"u1", "u2"}
    ShowIncidents = 4
    Shots = {"drone", "dslr", "audio"}
    ShotAt <- ShotTimes
    LooksLike <- AllAlike
    Sites = {"A", "B"}
    Geotag <- Tags
    Retags <- NewTags
    NoSite = "none"
    TimeWindow = 1
    Inferrers = {"i1"}
    PageLoads = {"v1", "v2"}
    RetryAfter = 1
    LocateIncidents = 5
    Maps = {"pa", "us"}
    Extractors = {"x1", "x2"}
    MapIncidents = 4
CHECK_DEADLOCK FALSE
INVARIANTS
    MergeCorrect
    SlidesCorrect
PROPERTIES
    PairsCorrect
    ShowcaseCorrect
    MapsCorrect
    BackroomEnds
