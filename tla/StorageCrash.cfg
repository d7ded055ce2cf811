SPECIFICATION Spec
CONSTANTS
    s1 = s1
    s2 = s2
    s3 = s3
    Sessions = {s1, s2, s3}
    Legacy = Legacy
    NoSession = NoSession
    MaxDamage = 1
INVARIANT TypeOK
INVARIANT ManifestIsWhole
INVARIANT SnapshotSurvives
 
PROPERTY LoginsAreKept
PROPERTY RefinesRegister
CHECK_DEADLOCK FALSE
