SPECIFICATION FairSpec
CONSTANTS
  Task = {t1, t2}
  Signing = {t2}
  Poll = Poll
  NoTask = NoTask
  NoData = NoData
  MaxVersion = 1
  MaxSession = 1
  Flaky = {"status", "setup", "logout", "change", "refresh"}
INVARIANT
  ShellIsPolled
PROPERTY
  ShowsOwnChange
  CatchesUp
