CONSTANTS
  Keys = {k1, k2, k3, k4, k5, k6}
  Data = {d1, d2}
  NoReply = NoReply
  Zero = Zero
  MaxRecords = 4
  Watermarks <- HalfMostOrNone
  MaxReads = 1
  MaxWrites = 2
SPECIFICATION Spec
CONSTRAINT FewTouched
SYMMETRY Symmetry
CHECK_DEADLOCK FALSE
INVARIANTS
  TypeOK
  SlotsAccounted
  RoomIsReal
  SlotsExclusive
  FileDense
  SlotSupply
  OverflowNeverAborts
PROPERTIES
  StoreSpec
  EvictsLeastRead
  RefusesOnlyWhenFull
