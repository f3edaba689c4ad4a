SPECIFICATION FairSpec
CONSTANTS
  Linea = {backup}
  MaxArranques = 3
  MaxFallos = 2
  MaxEdiciones = 2
INVARIANTS TypeOK OneLine NoOrphanLine OthersKept ModuleIsLoaded
PROPERTY StopsWhenAsked
CHECK_DEADLOCK FALSE
