CONSTANTS
  RideIds = {i1, i2, i3}
  Keys = {k1}
  Bodies = {b1, b2}
  Workers = {w1, w2, w3}
  MaxFailures = 1
  NoKey = NoKey
  NoRide = NoRide
  NoRecord = NoRecord
  NoSession = NoSession
  Addresses = {a1, a2}
  NoWindow = NoWindow
  Limit = 2
  MaxMinute = 1
  MaxCalls = 4
SPECIFICATION LimitedSpec
SYMMETRY Symmetry
VIEW MCView
INVARIANTS LimitedTypeOK OneRidePerKey AnswersAreRides
PROPERTIES ImplementsBook AdmitsTheFirst
