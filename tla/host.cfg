\* The files of one host: a settings file patched by two processes, plugin files, settings.
CONSTANTS
    h1 = h1
    h2 = h2
    h3 = h3
    p1 = p1
    p2 = p2
    s1 = s1
    s2 = s2
    s3 = s3
    s4 = s4
    buildA = buildA
    buildB = buildB
    l1 = l1
    l2 = l2
    u1 = u1
    u2 = u2
    c1 = c1
    c2 = c2
    loop = loop
    Parts = {"patch", "plugins", "alone", "settings", "mcp"}
    Handles = {h1, h2, h3}
    Procs = {p1, p2}
    Owner <- HandleOwner
    None = None
    Serves = {s1, s2, s3, s4}
    Remote = {s4}
    BuildOf <- ServeBuild
    PortOf <- ServePort
    NoServe = NoServe
    FlagNames = {"Enabled", "Interval", "NumFrames", "EnabledToo"}
    Longer <- LongerNames
    FlagFiles <- SomeFlagFiles
    MaxFlags = 2
    Widgets = {"outputPanel", "rodeoPanel", "frame"}
    MaxRefs = 2
    Launches = {l1, l2}
    Others = {u1, u2}
    McpCalls = {c1, c2}
    Loop = loop
    Scenes <- McpScenes
    Nobody = Nobody
    MaxRequests = 4
    MaxLate = 1
SPECIFICATION HostSpec
INVARIANTS
    TypeOK
    OriginalKept
    BuiltOnOriginal
    PatchHolds
    LiveBackendHasPlugin
    SettingsAsAsked
    McpAnswersOwn
    McpIdsRight
PROPERTY
    SweepSparesStudios
CHECK_DEADLOCK FALSE
