SPECIFICATION Spec
CONSTANTS
    Kilo = 4
    deserialize_item <- ReadItem
    serialize_item <- WriteItem
    evaluate_item <- HoldsItem
    MaxText = 16
    Levels <- WrittenLevels
    Entries <- FileEntries
    Given <- GivenRules
    Typed <- TypedTexts
    UserPaths <- HomePaths
    UserTree <- home
    MaxTouches = 3
    MaxEdits = 1
    MaxNumber = 62
    Names <- TreeNames
    Dirs <- TreeDirs
    RealFiles <- TreeFiles
    Links <- TreeLinks
    Targets <- LinksTo
    FolderSets <- OneOrTwo
    Wanted <- NotAtTop
    MaxLimit = 2
CHECK_DEADLOCK FALSE
INVARIANTS
    ScanAndLiveAgree
    AllowedStaysInside
    NearestMarker
    PreviewComplete
    ExactlyOneHolds
PROPERTIES
    MarkersOnlyProtect
    SavingKeepsMeaning
    ReopeningKeeps
    ScopeOnlyNarrows
    
