SPECIFICATION Spec
CONSTANTS
    r1 = r1
    r2 = r2
    seeded = seeded
    Requests = {r1, r2}
    Uploads <- MCOverlapUploads
    Bundle <- MCBundle
    Seeded = seeded
    SeedRows <- MCSeedRows
    Revoked <- MCRevoked
    MaxUploads = 2
    MaxStarts = 2
PROPERTIES
    LatestOnlyGrows
CHECK_DEADLOCK FALSE
