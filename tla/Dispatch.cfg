\* One dispatch, three processes that resume it, killed at any point.
SPECIFICATION Spec
CONSTANTS
  p1 = p1
  p2 = p2
  p3 = p3
  passed = passed
  failed = failed
  NoVerdict = NoVerdict
  NoReceipt = NoReceipt
  Clients <- ThreeClients
  Verdicts <- Found
  MaxWork = 2
INVARIANTS
  EvidenceOutlivesLane
  ReceiptTellsTheReap
PROPERTIES
  ReapedIsReported
CHECK_DEADLOCK FALSE
