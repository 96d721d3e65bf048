SPECIFICATION Spec
CONSTANTS
    Id = {i1, i2, i3}
    web = web
    db = db
    ContainerName = {web, db, n3}
    LooksLikeId = {web}
    Limit = 2
    None = None
INVARIANTS OneContainer RightContainer NoFalseAbsence
