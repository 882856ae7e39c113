\* Three workers that renew for more or for less than they have left.
SPECIFICATION FairSpec
CONSTANTS
  alice = alice
  bob = bob
  w1 = w1
  w2 = w2
  w3 = w3
  k1 = k1
  k2 = k2
  k3 = k3
  k4 = k4
  Nobody = Nobody
  Workers <- ThreeWorkers
  ActorOf <- ActorOfWorker
  Tokens <- FourTokens
  Lives <- ShortOrLong
INVARIANTS
  WorkersExclude
PROPERTIES
  LiveLeaseIsKept
  WaitingEnds
