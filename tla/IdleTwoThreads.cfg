\* An idle timeout on two threads: the copy of the registry that a broadcast
\* works on is stale as soon as the other thread opens or closes a connection.
SPECIFICATION Spec
CONSTANTS
  Conn = {c1, c2}
  Endpoint = {upload}
  NoEndpoint = NoEndpoint
  NumThreads = 2
  TimeoutRequest = FALSE
  TimeoutIdle = TRUE
  Broadcasts = TRUE
  MaxWrites = 1
SYMMETRY Symmetry
INVARIANT NullTimerOnlyInHandshake
PROPERTY IdleFiresOnce
\* The process dies of a short request line, or when the answer of a handshake
\* cannot be written.
CHECK_DEADLOCK FALSE
