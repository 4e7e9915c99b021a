\* ServeSSE with a writer that flushes; the job and the page come to rest.
CONSTANTS
  Flushable = TRUE
  MaxReports = 2
  MaxFailures = 1
  MaxRefreshes = 1
  MaxBreaks = 1
SPECIFICATION FairSpec
CHECK_DEADLOCK FALSE
INVARIANTS TypeOK ShownIsTrue UnderWayIsFollowed
PROPERTIES FollowerIsSubscribed EndIsShown
