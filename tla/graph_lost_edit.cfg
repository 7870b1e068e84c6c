SPECIFICATION Spec
CONSTANTS
    dir = dir
    src = src
    hdr = hdr
    gen = gen
    obj = obj
    lib = lib
    Foreign = Foreign
    Files = {dir, src, hdr}
    Objects = {obj}
    Libraries = {lib}
    Tools = {gen}
    Bffs <- OneBff
    FirstBffs <- OneBff
    Lead <- MCLead
    Discovers <- MCDiscovers
    TargetSets <- LibOnly
    NumWorkerThreads = 2
    StopOnFirstError = TRUE
    FastCancel = FALSE
    Faulty = {}
    EditedDuringBuild = {hdr}
    Deletable = {}
    MaxBuilds = 2
    MaxEdits = 1
    MaxInterruptions = 0
INVARIANTS
    SuccessIsFresh
