SPECIFICATION Spec
CONSTANTS
    Missing = Missing
    Unreadable = Unreadable
    Sentinel = Sentinel
    NoFile = NoFile
    MaxProcs = 4
    MaxWrites = 4
    InputFiles <- MCInputFiles
CONSTRAINT JobsRun
INVARIANTS RejectedStops OptionsAgree StatsInOrder DumpNeedsRecords ReportTrue
PROPERTY SessionEnds
