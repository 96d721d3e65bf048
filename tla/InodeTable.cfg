SPECIFICATION Spec
CONSTANTS
    Root = root
    Path = {root, p1, p2}
    Removable = {root, p1, p2}
    Time <- MCTime
    Age <- MCAge
    MaxInode = 4
    None = None
INVARIANTS MapsAreInverse NumbersKeepTheirPath
PROPERTIES DeniedForEver RootResolves ImplementsPathHandles
