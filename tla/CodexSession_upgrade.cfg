SPECIFICATION FairSpec
CONSTANTS
    Requests = {q1, q2}
    MaxConns = 2
    Streams = {TRUE, FALSE}
    Assume = {"readers_apart", "steady_writes", "patience"}
    None = None
PROPERTIES
    SessionServes
CHECK_DEADLOCK FALSE
