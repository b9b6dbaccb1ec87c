SPECIFICATION Spec
CONSTANTS
    Parent = parent
    Child = child
    Places = {1}
    MaxDirs = 1
INVARIANT DeletedAtExit
CHECK_DEADLOCK FALSE
