SPECIFICATION Spec
CONSTANTS
    dir = dir
    src = src
    hdr = hdr
    gen = gen
    obj = obj
    lib = lib
    Foreign = Foreign
    Files = {dir, src, hdr}
    Objects = {obj}
    Libraries = {lib}
    Tools = {gen}
    Bffs <- ThreeBffs
    FirstBffs <- OneBff
    Lead <- MCLead
    Discovers <- MCDiscovers
    TargetSets <- LibOnly
    NumWorkerThreads = 2
    StopOnFirstError = TRUE
    FastCancel = TRUE
    Faulty = {obj}
    EditedDuringBuild = {src}
    Deletable = {hdr}
    MaxBuilds = 3
    MaxEdits = 1
    MaxInterruptions = 1
INVARIANTS
    TypeOK
    SuccessIsFresh
    QuietBuild
    ToolsReadFinishedFiles
    RecordsAreHonest
