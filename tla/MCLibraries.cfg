SPECIFICATION Spec
CONSTANTS
    f1 = f1
    f2 = f2
    g1 = g1
    g2 = g2
    k1 = k1
    k2 = k2
    n1 = n1
    n2 = n2
    w1 = w1
    p1 = p1
    p2 = p2
    p3 = p3
    parent = parent
    child = child
    h1 = h1
    h2 = h2
    Files <- MCFiles
    Groups <- MCGroups
    Attributes = {"a"}
    Datasets = {"d"}
    AttributeNumbers <- MCAttributeNumbers
    Old = Old
    Text = Text
    None = None
    NoEntry = NoEntry
    Zero = Zero
    MaxBadReads = 1
    Keywords <- MCKeywords
    Numbers <- MCNumbers
    Words <- MCWords
    Phrase = Phrase
    AsBool <- MCAsBool
    Yes = Yes
    No = No
    InputFiles <- MCInputFiles
    NoFile = NoFile
    Missing = Missing
    Unreadable = Unreadable
    Sentinel = Sentinel
    MaxLength = 2
    Callers <- MCCallers
    MaxLevels = 4
    MAX_DEPTH = 3
    Nobody = Nobody
    Parent = parent
    Child = child
    Places = {1, 2}
    MaxDirs = 2
    Saves = {1, 2, 3, 4}
    Hosts <- MCHosts
    NoTable = NoTable
    Blank = Blank
    NoOne = NoOne
    CHUNKSIZE = 2
    MaxFaults = 2
CONSTRAINT Representative
SYMMETRY Symmetry
CHECK_DEADLOCK FALSE
INVARIANTS HandlerRestored GroupsClosed PathsMade NotTakenEarly ScratchGone LogTypeOK AbortsNeedFault
PROPERTIES QueriesAnswered LogSpec
