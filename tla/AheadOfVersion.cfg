CONSTANTS
  Rides = {r1}
  Drivers = {d1}
  owner = owner
  Passengers = {owner}
  Admins = {}
  Workers = {w1, w2}
  SearchCount = 1
  MaxVersion = 6
  Lookahead = 1
  NoDriver = NoDriver
  NoRide = NoRide
  NoSession = NoSession
  PassengerOf <- MCPassengerOf
SPECIFICATION Spec
PROPERTY TransitionsAreLegal
