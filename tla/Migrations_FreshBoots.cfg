\* A new database, where create_all runs before the migrations.
SPECIFICATION FairSpec
CONSTANTS
    j1 = j1  j2 = j2  v1 = v1  v2 = v2  b1 = b1  b2 = b2
    Boots = {b1, b2}
    Jobs = {j1}
    Versions = {v1}
    Flags = {"scrape_enabled"}
    Databases <- MCFresh
    MaxDeaths = 0
    Absent = Absent  Null = Null
PROPERTY FreshBoots
