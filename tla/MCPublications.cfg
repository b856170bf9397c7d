SPECIFICATION PubSpec
CONSTANTS
    None = None
    Torn = Torn
    Batches <- PubBatches
    Keys <- PubKeys
    UnitsPerDay = 1
    MaxTime <- PubMaxTime
    MaxDamage <- PubDamage
    Horizons = {1, 2}
    Window = 2
    YearLength = 2
    Taxonomy <- MCTaxonomy
    TaxonomyVersion = t1
    Delay = 1
    Publishers = {p1, p2}
    Requests <- PubRequests
    ResultFiles <- MCResultFiles
    MaxCommands <- PubCommands
    MaxFaults = 1
SYMMETRY Symmetry
INVARIANTS
    AnswersDependOnKnownRows
    SupersededNeverLeaks
    CatalogIsComplete
    SnapshotAgreesWithInputs
    AdjustedSeriesIsFlat
    PublishedIsReadable
    ArtifactsAreReproducible
    DocumentsCanBeRerun
PROPERTIES
    ConflictsAreExplained
    ImplementsWriteOnce
CHECK_DEADLOCK FALSE
