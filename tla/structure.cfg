SPECIFICATION Spec
INVARIANTS PointsAtMeanings SaidOnceEach StartsAtOwners NothingLeftUnsaid HeldByProject
CHECK_DEADLOCK FALSE
