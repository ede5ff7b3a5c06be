CONSTANTS
    q1 = q1
    q2 = q2
    ann = ann
    root = root
    Req = {q1, q2}
    Member = {ann}
    Admin = {root}
    MaxRows = 3
    MaxCopies = 2
CHECK_DEADLOCK FALSE
SPECIFICATION Spec
SYMMETRY Symmetric
INVARIANTS
    RowsOK
    DeletionsFailOnlyInARace
    FilesAreThere
