SPECIFICATION Spec
CONSTANTS
    one = one
    two = two
    old = old
    new = new
    NoSource = NoSource
    Processes <- MCProcesses
    Commands = {"run", "compile", "get"}
    GitDeps <- MCGit
    PathDeps <- MCPath
    Contents <- MCContents
    Initial <- MCInitial
    MaxEvents = 1
INVARIANTS
    TypeOK
    LockAgrees
PROPERTIES
    OnlyRacesDelete
    CacheHeals
