CONSTANTS
  c1 = c1
  c2 = c2
  Clients <- MCClients
  ClientKinds <- CleanKinds
  MaxRequests = 1
SPECIFICATION Spec
INVARIANT HandlersDontOutliveServer
