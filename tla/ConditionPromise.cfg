SPECIFICATION FairSpecDue
CONSTANTS
  Proc = {p1, p2, p3}
  Values = {0}
  Disciplined = TRUE
PROPERTY BroadcastReachesAll
