\* Two workers of one subscription, or every filter and expiry (MCHubCursor).
SPECIFICATION HubSpec
CONSTANTS
  owner = owner
  t1 = t1
  t2 = t2
  e1 = e1
  text = text
  k1 = k1
  o1 = o1
  x1 = x1
  w1 = w1
  w2 = w2
  Nobody = Nobody
  NoKey = NoKey
  NoType = NoType
  NoPlan = NoPlan
  NoPage = NoPage
  Actors <- OneActor
  Topics <- OneTopic
  EventTypes <- OneEventType
  Texts <- OneText
  Instants <- BeforeAndAfter
  Deadlines <- Between
  Never = 9
  MaxGeneration = 2
  Scopes <- OneScope
  ScopeOf <- AllInScope1
  Keys <- None
  VoteValues <- None
  Cutoffs <- Between
  Operators <- OneOperator
  PruneBatchLimit = 1
  MaxSequence = 3
  MaxEpoch = 1
  MaxPins = 0
  Subscriptions <- OneSubscription
  Workers <- TwoWorkers
  Limits <- JustTwo
  KindFilters <- MessagesOrBoth
CONSTRAINT TwoWorkersOrFilters
SYMMETRY WorkersAlike
INVARIANTS
  CursorAccounted
  NothingRetainedIsMissed
PROPERTIES
  AckIsSound
CHECK_DEADLOCK FALSE
