SPECIFICATION Spec
CONSTANTS
    r1 = r1
    r2 = r2
    seeded = seeded
    Requests = {r1, r2}
    Uploads <- MCUploads
    Bundle <- MCBundle
    Seeded = seeded
    SeedRows <- MCSeedRows
    Revoked <- MCRevoked
    MaxUploads = 2
    MaxStarts = 2
INVARIANTS
    RevocationsHonoured
CHECK_DEADLOCK FALSE
