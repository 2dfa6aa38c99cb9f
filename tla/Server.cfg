CONSTANTS
  Conns = {c1, c2}
  NoConn = NoConn
  MaxRequests = 3
SPECIFICATION Spec
INVARIANTS
  OwnSocket
  OwnRequest
PROPERTIES
  RequestsAreAnswered
  MainAcceptsAgain
