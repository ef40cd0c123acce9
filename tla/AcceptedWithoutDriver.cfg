CONSTANTS
  Rides = {r1}
  Drivers = {d1}
  owner = owner
  Passengers = {owner}
  Admins = {}
  Workers = {w1}
  SearchCount = 1
  MaxVersion = 6
  Lookahead = 0
  NoDriver = NoDriver
  NoRide = NoRide
  NoSession = NoSession
  PassengerOf <- MCPassengerOf
SPECIFICATION Spec
INVARIANT AcceptedHasDriver
