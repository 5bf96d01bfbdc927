SPECIFICATION DeploymentSpec
CONSTANTS
    Layouts <- FourLayouts
    FrameW = 20
    FrameH = 18
    Matches <- Patterns
    Rank <- Order
    OnDisk <- Disk
    Suffix <- Formats
    Names <- ClassNames
    Configs <- AllConfigs
    Shown <- BoxesShown
    Algorithms <- TwoAlgorithms
    Common <- CommonOptions
CHECK_DEADLOCK FALSE
INVARIANTS
    ZoneIsRight
    WrittenIsUsed
    AcceptedStarts
    StoredOrWarned
    QuietRuleFires
