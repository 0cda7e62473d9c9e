SPECIFICATION FairSpec
CONSTANTS
    g = g
    h = h
    old = old
    new = new
    none = none
    r1 = r1
    Jobs = {g, h}
    SourceOf <- MCSourceOf
    Sources <- MCSources
    RetentionSources = {"greenhouse"}
    Retention = 0
    Contents = {old, new}
    Blank = none
    Requests = {r1}
    MaxInserts <- MCMaxInserts
    MaxFaults = 1
INVARIANTS
    StreamTruthful
PROPERTIES
    WriteLandsScrape
    MatchGoesWithListing
    StaleGoes
CHECK_DEADLOCK FALSE
