CONSTANT MaxCrashes = 2
SPECIFICATION FairDatabaseSpec
CHECK_DEADLOCK FALSE
INVARIANT RunsOnCurrent
PROPERTY UpgradeEnds
