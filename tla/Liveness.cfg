\* Fair scheduling, one thread, no data written.
SPECIFICATION FairSpec
CONSTANTS
  Conn = {c1, c2}
  Endpoint = {upload}
  NoEndpoint = NoEndpoint
  NumThreads = 1
  TimeoutRequest = TRUE
  TimeoutIdle = FALSE
  Broadcasts = FALSE
  MaxWrites = 0
PROPERTIES RequestEnds DeadIsUnregistered
\* The process may die of the exception that shutdown throws, or of that of substr.
CHECK_DEADLOCK FALSE
