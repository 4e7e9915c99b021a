\* ServeSSE behind the server's middleware, whose writer does not flush.
CONSTANTS
  Flushable = FALSE
  MaxReports = 1
  MaxFailures = 0
  MaxRefreshes = 0
  MaxBreaks = 0
SPECIFICATION FairSpec
CHECK_DEADLOCK FALSE
PROPERTY FollowerIsSubscribed
