SPECIFICATION Spec
CONSTANTS
  Events = {e1, e2}
  Replayers = {}
  Handlers = {h1}
  Services = {h1}
  Topics = {ty}
  TopicOf <- MCTopicOf
  NameOf <- MCNameOf
  SubTopic <- MCSubTopic
  NoTask = NoTask
  ParkAfter = 5
  MaxOutbox = 5
  MaxDlq = 5
  MaxProcessed = 9
  MaxRestarts = 0
INVARIANTS
  IdempotentDelivery
CHECK_DEADLOCK FALSE
