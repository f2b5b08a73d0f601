SPECIFICATION FairSpec
CONSTANTS
    Cpus = {c0, c1, c2}
    Pages = {p, q}
    MaxReqs = 2
    MaxExtra = 1
    NoOne = NoOne
    NoPage = NoPage
CHECK_DEADLOCK FALSE
INVARIANTS
    AnswersExact
    FlushedBeforeReturn
    HonestNeverFails
PROPERTY
    ShootdownCompletes
