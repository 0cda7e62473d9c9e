\* Two threads score while the provider answers anything and Redis fails once.
SPECIFICATION FairSpec
CONSTANTS
    c1 = c1  c2 = c2
    Callers = {c1, c2}
    MaxTransient = 1
    MaxLimited = 1
    Ttl = 1
    MaxFaults = 1
INVARIANTS SpendBounded BenchHolds RaisedIsRecorded
PROPERTIES CallEnds
