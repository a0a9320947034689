CONSTANTS
  p1 = p1
  p2 = p2
  d1 = d1
  d2 = d2
  d3 = d3
  d4 = d4
  Payments = {p1, p2}
  Deliveries = {d1, d2, d3, d4}
  EventOf <- MCEventOf
  Checkouts = {p1}
  MaxCrashes = 1
SPECIFICATION Spec
INVARIANTS TypeOK ProcessedIsSaved OneWorker
PROPERTY ProcessedIsFinal
CHECK_DEADLOCK FALSE
