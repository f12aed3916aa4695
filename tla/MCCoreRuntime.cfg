SPECIFICATION MCSpec
CONSTANTS
    None = None
    p1 = p1
    p2 = p2
    s1 = s1
    s2 = s2
    steam = steam
    native = native
    Pids = {p1, p2}
    StartTicks = {s1, s2}
    AppIds = {steam}
    Executables = {native}
    Identities <- AllIdentities
    WidgetProfiles = {TRUE, FALSE}
    Settings <- TwoSettings
    Views = {"v1", "v2"}
    ElapsedSamples = {0, 2}
    Backends = {"bridge", "x11"}
    LeaseTimeout = 2
    MaxLag = 1
    MaxTime = 8
    MaxElapsed = 3
    MaxRevision = 3
INVARIANTS
    CoreIsSafe
    LeaseBoundsSilence
PROPERTIES
    RevisionPerChange
    ClockIsHonest
