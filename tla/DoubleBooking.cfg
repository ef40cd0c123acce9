CONSTANTS
  Rides = {r1, r2}
  Drivers = {d1}
  owner = owner
  Passengers = {owner}
  Admins = {}
  Workers = {w1, w2}
  SearchCount = 1
  MaxVersion = 5
  Lookahead = 0
  NoDriver = NoDriver
  NoRide = NoRide
  NoSession = NoSession
  PassengerOf <- MCPassengerOf
SPECIFICATION Spec
SYMMETRY Symmetry
INVARIANT NoDoubleBooking
