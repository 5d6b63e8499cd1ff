CONSTANTS
    Row = {1, 2}
    Val = {1, 2}
    Tx = {t1, t2}
    Faults = {"prepare", "publish"}
    ReopenAfterFailure = TRUE
    IntBytes = 2
    Layouts <- MCLayouts
    Schemas <- MCSchemas
    SqlLayout <- MCSqlLayout
    Statements <- MCStatements
    Queries <- MCQueries
    Misspelt <- MCMisspelt
SPECIFICATION SqlSpec
SYMMETRY TxSymmetry
INVARIANTS TypeOK WriterAdmission IndexConsistent FindByIndexExact TableReadsExact RecordsInvert
    SelectExact ParserFaithful
PROPERTIES WriterIsolation CommitPublishesRange
