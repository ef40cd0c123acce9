CONSTANTS
  Rides = {r1}
  Drivers = {d1}
  owner = owner
  Passengers = {owner}
  Admins = {}
  Workers = {w1, w2, w3}
  SearchCount = 1
  MaxVersion = 5
  Lookahead = 2
  NoDriver = NoDriver
  NoRide = NoRide
  NoSession = NoSession
  PassengerOf <- MCPassengerOf
  PoolSize = 2
SPECIFICATION ServiceSpec
VIEW MCView
INVARIANTS ServiceTypeOK ConnectionsAreReturned KnownIsCommitted NobodyIsStuckAlone NoWaitIsCircular
PROPERTIES ImplementsTransitions TransitionsAreLegal EveryCallReturns
