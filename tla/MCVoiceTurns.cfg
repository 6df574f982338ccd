SPECIFICATION FairSpec
CONSTANTS
  a = a
  b = b
  Turns <- MCTurns
  Source <- MCSource
  MaxWaves = 2
CHECK_DEADLOCK FALSE
INVARIANTS TypeOK FloorExclusive SatelliteInOrder
PROPERTIES NothingCutShort EveryTurnEnds
