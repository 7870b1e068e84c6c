SPECIFICATION FairSpec
CONSTANTS
    dir = dir
    src = src
    hdr = hdr
    gen = gen
    obj = obj
    lib = lib
    Foreign = Foreign
    Files = {dir, src, hdr}
    Objects = {obj}
    Libraries = {lib}
    Tools = {gen}
    Bffs <- TwoMore
    FirstBffs <- TwoMore
    Lead <- MCLead
    Discovers <- MCDiscovers
    TargetSets <- LibOnly
    NumWorkerThreads = 2
    StopOnFirstError = TRUE
    FastCancel = TRUE
    Faulty = {gen, lib}
    EditedDuringBuild = {}
    Deletable = {}
    MaxBuilds = 1
    MaxEdits = 0
    MaxInterruptions = 0
INVARIANTS
    FailureHasCause
PROPERTIES
    CycleIsReal
    BuildEnds
