\* Two boots overlap on a database of the first release, or on a new one.
SPECIFICATION FairSpec
CONSTANTS
    j1 = j1  j2 = j2  v1 = v1  v2 = v2  b1 = b1  b2 = b2
    Boots = {b1, b2}
    Jobs = {j1, j2}
    Versions = {v1}
    Flags = {"scrape_enabled"}
    Databases <- MCBoth
    MaxDeaths = 1
    Absent = Absent  Null = Null
INVARIANTS SchemaSound NoMatchLost
PROPERTIES BootKeepsFlags LegacyBoots
