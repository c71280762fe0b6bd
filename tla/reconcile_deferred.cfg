SPECIFICATION Spec
CONSTANTS
    Assets <- ThreeAssets
    Libraries <- OneLibrary
    Dirs <- TwoDirs
    Paths <- TwoPaths
    LibraryOf <- TheLibraries
    RootOf <- TheRoots
    DirOf <- TheDirs
    Contents <- TwoContents
    MaxChanges = 0
    MaxRewrites = 1
    MaxDrops = 0
    MaxAborts = 0
    MaxTogether = 1
    NoFile = NoFile
    NoPath = NoPath
    NoLibrary = NoLibrary
    NoItem = NoItem
    a1 = a1
    a2 = a2
    a3 = a3
    l1 = l1
    r1 = r1
    d1 = d1
    p1 = p1
    p2 = p2
    x = x
    y = y
PROPERTY
    MissingWasGone
