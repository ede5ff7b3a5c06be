CONSTANTS
    c1 = c1
    c2 = c2
    Client = {c1, c2}
    Here = Here
    Elsewhere = Elsewhere
    MaxAttempts = 1
    MaxSignups = 1
    MaxKeys = 1
    MaxUsers = 3
    MaxInvites = 1
SPECIFICATION Spec
PROPERTY
    DeletionIsWhole
