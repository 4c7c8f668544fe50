SPECIFICATION Spec
CONSTANTS
  Connections = {1, 2, 3}
  Tickets = {1, 2, 3}
  Nodes = {n1}
  Keys = {k1, k2}
  None = None
  MaxConnections = 6
  MaxPending = 1
  MaxTickets = 2
  MaxStreams = 1
  MaxCommits = 2
INVARIANTS PeersAreCurrent EndsAreTrusted NoOrphanSocket LoadIsBounded
PROPERTY ImplementsTickets
SYMMETRY KeySymmetry
CHECK_DEADLOCK FALSE
