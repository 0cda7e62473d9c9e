SPECIFICATION Spec
CONSTANTS
    v1 = v1
    v4 = v4
    v5 = v5
    Readers = {r1}
    Operators = {o1, o2}
    Bootstrap = v1
    Variants <- MCVariants
    SidecarMode <- MCSidecarMode
    Texts <- MCTexts
    Deployments <- MCDeployments
    MaxVersions = 4
    MaxChanges = 2
SYMMETRY Symmetry
INVARIANTS HistoryTruthful NoPhantomRecord VariantsOnce
PROPERTY BatchOnlyWhenEdited
