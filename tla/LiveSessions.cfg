\* Sessions started, failed, stopped and started again.
CONSTANT MaxTasks = 3
SPECIFICATION FairSpec
INVARIANTS
  ReporterFollowsOutput
  NothingAfterStop
  LimitIsThisSessions
PROPERTY
  UiReturns
