\* Commands of two releases open one hub, or enrol repositories in two (MCHubScopes).
SPECIFICATION Spec
CONSTANTS
  p1 = p1
  p2 = p2
  p3 = p3
  h1 = h1
  h2 = h2
  q1 = q1
  q2 = q2
  a1 = a1
  Nobody = Nobody
  Nowhere = Nowhere
  Processes <- ThreeProcesses
  Homes <- TwoHomes
  Releases <- TwoReleases
  ActorIds <- OneActor
  MaxIds = 4
  Paths <- TwoPaths
  Inos <- TwoInos
  MaxDirs = 2
CONSTRAINT OpensOrEnrols
SYMMETRY Alike
INVARIANTS
  TypeOK
  LookupsStand
  OneScopePerRepository
PROPERTIES
  AuthorityStands
  RowsFitFormat
