SPECIFICATION FieldSpec
CONSTANTS
    MaxMounts = 3
    MaxTexts = 3
    MaxSends = 2
    MaxFailures = 2
INVARIANT SentXorKept
CHECK_DEADLOCK FALSE
