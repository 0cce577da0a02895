SPECIFICATION LabSpec
CONSTANTS
  p1 = p1
  p2 = p2
  p3 = p3
  p4 = p4
  Proc <- MCProc
  NoProc = NoProc
  InitCount = 1
  MaxPosts = 4
  MaxWaits = 5
  MaxKills = 2
  Student = {"s1", "s2"}
  Office = {"o1", "o2"}
  Nobody = "nobody"
  QUEUE_MAXDIM = 2
  nthreads = 3
  Size = 2
  Element = {1, 2}
  nReaders = 3
  Failure = "fails"
  Ids = {1, 2}
  Producer = {"p1", "p2"}
  Taker = {"c1", "c2", "c3"}
  Dimension = 2
  Iterations = 3
  Consumer = {0, 1, 2, 3}
  LastRecord = 2
  Lines = 4
  nProcessing = 2
  ReadOnly = {"r"}
  Interval = 2
  MAXIMUM_WAIT_OBJECTS = 2
  Visits <- MCVisits
  RecordFiles <- MCRecordFiles
  Operations <- MCOperations
INVARIANTS CountInv NoLostWakeup RoundsInv OfficesInv SortInv AnswerIsRight NothingLost
PROPERTIES Implements InStep QueueIsFifo 
CHECK_DEADLOCK FALSE
