SPECIFICATION MCSpec
CONSTANTS
    None = None
    QUEUE_CAPACITY = 2
    ARCHIVE_COUNT = 3
    MaxFile = 1
    Budgets <- LogBudgets
    Rects = {"r1", "r2", "r3"}
    MaxGames = 2
    MaxMoves = 6
    Games = {"g", "h"}
    Places = {"r", "s"}
    Modes = {"passive", "interactive"}
    Interval = 2
    MaxTime = 5
    Changes = {5}
    BufferMax = 2
    PortalBudgets <- PortalUses
    GameWindows = {"g1", "g2"}
    Overlays = {"o"}
    Others = {"x"}
    Unreportable = {}
    BridgeBudgets <- HyprlandUses
    Steam = {"s1"}
    Manual = {"m1"}
    Versions = {"v1", "v2"}
    ControlBudgets <- ControlUses
    FavoritesMax = 1
    ListMax = 2
    DoneMax = 2
    Eras <- FissureEras
    Offerings <- OfferedResources
    Current <- CurrentActivities
    Channels <- TypedChannels
    Kinds <- StoreKinds
    StoreBudgets <- StoreUses
INVARIANTS
    CoreLogIsFaithful
    PortalBindingIsLive
    GrabsAreExact
    BridgeIsTidy
    PullsTheGameItCovered
    ControlIsCurrent
    NotesAreKept
    SavesAreSafe
    EditsAreKept
    LinesAreAccounted
PROPERTIES
    InteractiveSurvives
    StopMeansStopped
    CoreNeverGoesBack
    GesturesAreOwned
    OnlyTheOldestIsLost
CHECK_DEADLOCK FALSE
