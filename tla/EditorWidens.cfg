SPECIFICATION EditorSpec
CONSTANTS
    Kilo = 4
    deserialize_item <- ReadItem
    serialize_item <- WriteItem
    evaluate_item <- HoldsItem
    MaxText = 16
    Given <- GivenRules
    Typed <- TypedTexts
    UserPaths <- HomePaths
    UserTree <- home
    MaxTouches = 1
    MaxEdits = 0
PROPERTY NeverWidens
