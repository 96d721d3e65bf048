SPECIFICATION Spec
CONSTANTS
    a = a
    b = b
    Component = {a, b}
    Path <- MCPath
    Leaf = {m1, m2}
    Dir = Dir
INVARIANTS WellFormed FailedInsertChangesNothing OthersUntouched ComputesInsertInto
