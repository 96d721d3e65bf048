SPECIFICATION ProcSpec
CONSTANTS
    Pid = {p1, p2}
    Source <- MCSource
    Guarded <- MCGuarded
    MaxBorn = 3
    NoPid = NoPid
INVARIANTS OnlyOfThisNumber NoHolesInOneLife
