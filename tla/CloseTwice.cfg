\* The comment at server_ws.hpp:189, with an idle timeout on two threads.
SPECIFICATION Spec
CONSTANTS
  Conn = {c1}
  Endpoint = {upload}
  NoEndpoint = NoEndpoint
  NumThreads = 2
  TimeoutRequest = FALSE
  TimeoutIdle = TRUE
  Broadcasts = FALSE
  MaxWrites = 1
INVARIANT CloseSentOnce
CHECK_DEADLOCK FALSE
