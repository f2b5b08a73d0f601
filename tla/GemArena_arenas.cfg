SPECIFICATION Spec
CONSTANTS
    DATA_REGION = 1
    DATA_SIZE = 3
    HUGEPAGE_DATA_REGION = 5
    HUGE_DATA_SIZE = 5
    HugeUnit = 2
    Top = 11
    Sizes = {2, 3}
CHECK_DEADLOCK FALSE
INVARIANTS
    TypeOK
    SlicesDisjoint
    HeapApart
    AbortOnlyWhenFull
