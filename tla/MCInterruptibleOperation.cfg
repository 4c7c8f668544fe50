SPECIFICATION FairSpec
CONSTANT Programs <- ClientPrograms
INVARIANTS CancelledTurnEnded
PROPERTIES OrphanTurnEnds CallerReturns
CHECK_DEADLOCK FALSE
