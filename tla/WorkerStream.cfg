SPECIFICATION FairSpec
CONSTANTS
    j1 = j1
    j2 = j2
    j3 = j3
    Jobs = {j1}
    Unfetchable = {j1}
    Versions = {v1}
    MaxJobs = 1
    ReadCount = 2
    MaxEvents = 3
    NoVersion = NoVersion
    NoGroup = NoGroup
INVARIANTS AckedAfterCycle ServedOnce
PROPERTY EntriesAcked
