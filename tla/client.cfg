\* The client: a run's message loop beside its calls, the JSON-RPC process, and captures.
CONSTANTS
    main = main
    side = side
    f1 = f1
    f2 = f2
    cat = cat
    ls = ls
    s1 = s1
    s2 = s2
    p1 = p1
    p2 = p2
    c1 = c1
    c2 = c2
    old = old
    r1 = r1
    r2 = r2
    None = None
    Lanes = {main, side}
    Main = main
    Files = {f1, f2}
    Children = {cat, ls}
    Echo = {cat}
    Scripts <- ClientScripts
    Disturbances <- RunDisturbances
    Streams = {s1, s2}
    Players = {p1, p2}
    Server = "server"
    Plans <- ClientPlans
    MaxOutput = 2
    Captures = {c1, c2, old}
    Earlier = {old}
    SizeOf <- CaptureSize
    Uploads = {r1, r2}
    Sources <- ScriptSources
    PieceSize = 5
    MaxScript = 12
    MaxBreaks = 2
    Parts = {"run", "daemon", "captures", "script"}
SPECIFICATION ClientSpec
INVARIANTS
    ClientTypeOK
    WrittenArrives
    ExitHonoured
    StreamEndsOnce
    FrameIsRecent
    ScriptArrivesWhole
PROPERTIES
    EndedRunReturns
    CanceledRunStops
CHECK_DEADLOCK FALSE
