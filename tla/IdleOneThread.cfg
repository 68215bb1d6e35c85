\* An idle timeout and broadcasts on the default single thread.
SPECIFICATION Spec
CONSTANTS
  Conn = {c1, c2}
  Endpoint = {upload}
  NoEndpoint = NoEndpoint
  NumThreads = 1
  TimeoutRequest = FALSE
  TimeoutIdle = TRUE
  Broadcasts = TRUE
  MaxWrites = 1
SYMMETRY Symmetry
INVARIANTS CloseSentOnce NoArmedTimerLeftBehind
\* The process dies of a short request line, or when the answer of a handshake
\* cannot be written.
CHECK_DEADLOCK FALSE
