SPECIFICATION Spec
CONSTANTS
  Events = {e1, e2, e3}
  Replayers = {}
  Handlers = {h1}
  Services = {h1}
  Topics = {ty}
  TopicOf <- MCTopicOf
  NameOf <- MCNameOf
  SubTopic <- MCSubTopic
  NoTask = NoTask
  ParkAfter = 3
  MaxOutbox = 2
  MaxDlq = 1
  MaxProcessed = 4
  MaxRestarts = 0
INVARIANTS
  NothingLeftUntried
CHECK_DEADLOCK FALSE
