CONSTANTS
  c1 = c1
  c2 = c2
  Clients <- MCClients
  ClientKinds <- AllKinds
  MaxRequests = 1
SPECIFICATION Spec
INVARIANT TypeOK
INVARIANT ActiveCountsHandlers
PROPERTY TerminatesOnLastConnection
