SPECIFICATION Spec
CONSTANTS
  Task = {t1}
  Signing = {}
  Poll = Poll
  NoTask = NoTask
  NoData = NoData
  MaxVersion = 1
  MaxSession = 1
  Flaky = {}
INVARIANT
  SignedOutShowsForm
