\* The comment at server_ws.hpp:264, on a single thread.
SPECIFICATION Spec
CONSTANTS
  Conn = {c1}
  Endpoint = {upload}
  NoEndpoint = NoEndpoint
  NumThreads = 1
  TimeoutRequest = TRUE
  TimeoutIdle = FALSE
  Broadcasts = FALSE
  MaxWrites = 1
PROPERTY TimeoutOnlyDuringRequest
CHECK_DEADLOCK FALSE
