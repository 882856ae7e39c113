\* A worker repeats an acknowledgement that succeeded, after a prune.
SPECIFICATION HubSpec
CONSTANTS
  owner = owner
  t1 = t1
  t2 = t2
  e1 = e1
  text = text
  k1 = k1
  o1 = o1
  x1 = x1
  w1 = w1
  w2 = w2
  Nobody = Nobody
  NoKey = NoKey
  NoType = NoType
  NoPlan = NoPlan
  NoPage = NoPage
  Actors <- OneActor
  Topics <- OneTopic
  EventTypes <- None
  Texts <- OneText
  Instants <- BeforeAndAfter
  Deadlines <- None
  Never = 9
  MaxGeneration = 1
  Scopes <- OneScope
  ScopeOf <- AllInScope1
  Keys <- None
  VoteValues <- None
  Cutoffs <- Between
  Operators <- OneOperator
  PruneBatchLimit = 1
  MaxSequence = 2
  MaxEpoch = 1
  MaxPins = 0
  Subscriptions <- OneSubscription
  Workers <- OneWorker
  Limits <- JustTwo
  KindFilters <- MessagesOnly
INVARIANTS
  AckCanBeRepeated
CHECK_DEADLOCK FALSE
