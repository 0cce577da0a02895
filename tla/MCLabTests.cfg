SPECIFICATION FairTestSpec
CONSTANTS
  Tests = {"condition_test1", "condition_test2", "condition_test3", "mutex_test1", "mutex_test2",
           "semaphore_test1", "semaphore_test2", "semaphore_test3"}
  Last = 2
  Turns = 5
INVARIANT OneTurn
PROPERTIES MutexAndSemaphoreTestsPass OnlyWaitersHang
CHECK_DEADLOCK FALSE
