\* websocket.cpp: timeout_idle keeps its default 0, several threads.
SPECIFICATION Spec
CONSTANTS
  Conn = {c1, c2}
  Endpoint = {upload, list}
  NoEndpoint = NoEndpoint
  NumThreads = 2
  TimeoutRequest = TRUE
  TimeoutIdle = FALSE
  Broadcasts = FALSE
  MaxWrites = 1
SYMMETRY Symmetry
INVARIANTS TypeOK RegistryMatchesChains
PROPERTIES NothingSentAfterClose CallbackOrder
\* The process may die of the exception that shutdown throws, or of that of substr.
CHECK_DEADLOCK FALSE
