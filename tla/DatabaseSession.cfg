CONSTANT Confs <- MCConfs
CONSTANT Limit = 2
CONSTANT MaxSent = 3
CONSTANT LogCapacity = 2
SPECIFICATION Spec
CHECK_DEADLOCK FALSE
 
INVARIANT OwnLimits
INVARIANT QueriesBounded
INVARIANT LogFaithful
 
PROPERTY TimerEndsSession
PROPERTY EndReleases
