SPECIFICATION Spec
CONSTANTS
    Files = {f1}
    Groups = {"g"}
    Attributes = {}
    Datasets = {"d"}
    Numbers = {1}
    Old = Old
    Text = Text
    None = None
    NoEntry = NoEntry
    Zero = Zero
    MaxBadReads = 0
INVARIANT CloseClosesAll
CHECK_DEADLOCK FALSE
