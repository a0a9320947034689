SPECIFICATION FairSpec
CONSTANTS
  Events = {e1, e2}
  Replayers = {r1}
  Handlers = {h1, h2}
  Services = {h1, h2}
  Topics = {ty}
  TopicOf <- MCTopicOf
  NameOf <- MCNameOf
  SubTopic <- MCSubTopic
  NoTask = NoTask
  ParkAfter = 2
  MaxOutbox = 1
  MaxDlq = 1
  MaxProcessed = 3
  MaxRestarts = 1
INVARIANTS
  TypeOK
  CallsWithinAttempts
  PublishedIsDurable
PROPERTIES
  PublishReturns
CHECK_DEADLOCK FALSE
