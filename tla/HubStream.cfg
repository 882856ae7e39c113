\* Messages with votes and pins, chains of events, or two scopes (MCHubStream).
SPECIFICATION Spec
CONSTANTS
  owner = owner
  t1 = t1
  t2 = t2
  e1 = e1
  text = text
  k1 = k1
  o1 = o1
  o2 = o2
  Nobody = Nobody
  NoKey = NoKey
  NoType = NoType
  NoPlan = NoPlan
  Actors <- OneActor
  Topics <- TwoTopics
  EventTypes <- OneEventType
  Texts <- OneText
  Instants <- BeforeAndAfter
  Deadlines <- Between
  Never = 9
  MaxGeneration = 2
  Scopes <- TwoScopes
  ScopeOf <- TopicPerScope
  Keys <- OneKey
  VoteValues <- UpOrClear
  Cutoffs <- Between
  Operators <- TwoOperators
  PruneBatchLimit = 3
  MaxSequence = 4
  MaxEpoch = 2
  MaxPins = 1
CONSTRAINT Families
INVARIANTS
  OneEntryPerKey
  HeadsCoherent
  PinsAttributed
  NoOrphans
PROPERTIES
  PruneIsAsPlanned
  PruneSpares
  ImplementsFeed
CHECK_DEADLOCK FALSE
