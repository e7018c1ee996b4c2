\* Two callers share a pool of one warm connection to a server of one slot.
SPECIFICATION Spec
CONSTANTS
  Conn = {1, 2}
  None = None
  MaxConns = 1
  Caller = {loop, request}
  Loop = {loop}
  MaxCalls = 2
  maxIdlePerPeer = 1
  MaxOutside = 1
INVARIANTS
  TypeOK
  ClosedServesNothing
  SlotsAreAccounted
  RepliesMatch
  IdleIsQuiescent
PROPERTY ShutdownCompletes
CHECK_DEADLOCK FALSE
