SPECIFICATION FairSpec
CONSTANTS
  Nobody = Nobody
  Student = {s1, s2, s3}
  Office = {o1, o2}
  QUEUE_MAXDIM = 2
PROPERTY AllServed
CHECK_DEADLOCK FALSE
