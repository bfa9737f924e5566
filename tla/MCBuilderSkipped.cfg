CONSTANTS
    p1 = p1
    p2 = p2
    before = before
    after = after
    Processes = {p1, p2}
    Kinds = {"cpp", "vhdl"}
    Builds <- MCBuilds
    Versions <- MCVersions
    Tools = {0, 1, 2}
    Template <- MCTemplate
    FileCount = 2
    Dependencies = TRUE
    MaxEdits = 0
    MaxStarts = 2
    MaxCalls = 3
    None = None
SPECIFICATION Spec
PROPERTY SkippedIsWritten
CHECK_DEADLOCK FALSE
