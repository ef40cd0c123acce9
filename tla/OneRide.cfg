CONSTANTS
  Rides = {r1}
  Drivers = {d1, d2}
  owner = owner
  Passengers = {owner, stranger}
  Admins = {admin}
  Workers = {w1, w2}
  SearchCount = 2
  MaxVersion = 7
  Lookahead = 0
  NoDriver = NoDriver
  NoRide = NoRide
  NoSession = NoSession
  PassengerOf <- MCPassengerOf
SPECIFICATION EventsSpec
VIEW MCView
SYMMETRY Symmetry
INVARIANTS EventsTypeOK ActsOnCurrentRow OutboxTellsState OutboxNamesTheDriver
PROPERTIES NothingIsUndone ImplementsTable ImplementsLedger
