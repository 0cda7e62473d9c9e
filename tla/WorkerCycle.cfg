SPECIFICATION Spec
CONSTANTS
    j1 = j1
    j2 = j2
    j3 = j3
    Jobs = {j1, j2, j3}
    Unfetchable = {}
    Versions = {v1, v4}
    MaxJobs = 2
    ReadCount = 1
    MaxEvents = 0
    NoVersion = NoVersion
    NoGroup = NoGroup
SYMMETRY Symmetry
INVARIANTS OneVersionPerJob EvaluatedIsRecorded
PROPERTY ImplementsMatchTable
