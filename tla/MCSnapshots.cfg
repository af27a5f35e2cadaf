SPECIFICATION Spec
CONSTANTS
  N = 1
  MaxEntity = 2
  PACKET_BACKUP = 4
  Margin = 0
  MAX_SNAPSHOT_ENTITIES = 1
  NumSnapshotEntities = 3
  MaxInt = 7
  MapChanges = 1
  Changes <- MCChanges
  MaxSequence = 6
  MaxTick = 2
  MaxLevel = 2
INVARIANTS TypeOK DeltaBaseIntact ClientSeesGame CounterBelowLimit
CHECK_DEADLOCK FALSE
