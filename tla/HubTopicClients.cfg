\* Two actors that read and change one topic concurrently.
SPECIFICATION ClientsSpec
CONSTANTS
  owner = owner
  helper = helper
  t1 = t1
  e1 = e1
  plain = plain
  edited = edited
  Nobody = Nobody
  Actors <- MCActors
  Topics <- MCTopics
  EventTypes <- MCEventTypes
  Texts <- MCTexts
  Instants <- MCInstants
  Deadlines <- MCDeadlines
  Never = 9
  MaxGeneration = 4
INVARIANTS
  GenerationIdentifiesPolicy
  AuditReplays
PROPERTIES
  NoLostPolicyUpdate
  AuthorityIsDelegated
  ArchiveInstantStands
CHECK_DEADLOCK FALSE
