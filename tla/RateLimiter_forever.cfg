SPECIFICATION FairSpec
CONSTANTS
  q1 = q1
  q2 = q2
  p1 = p1
  p2 = p2
  Requests = {q1, q2}
  Replicas = {p1, p2}
  ReplicaOf <- MCReplicaOf
  Limit = 2
  Window = 2
  MaxCount = 3
PROPERTY LimitedForAWhile
