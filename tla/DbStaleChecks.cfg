CONSTANTS
    Row = {1, 2}
    Val = {1, 2}
    Tx = {t1}
    Faults = {"publish"}
    ReopenAfterFailure = FALSE
    IntBytes = 2
    Layouts <- MCLayouts
    Schemas <- MCSchemas
    SqlLayout <- MCSqlLayout
    Statements <- MCStatements
    Queries <- MCQueries
    Misspelt <- MCMisspelt
SPECIFICATION SqlSpec
INVARIANTS IndexConsistent
