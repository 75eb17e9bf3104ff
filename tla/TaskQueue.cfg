SPECIFICATION FairSpec
CONSTANTS
  t1 = t1
  t2 = t2
  t3 = t3
  t4 = t4
  render = render
  other = other
  Script = Script
  NoThread = NoThread
  NoTask = NoTask
  Tasks <- MCTasks
  Posters <- MCPosters
INVARIANT NeverWaitsForItself
PROPERTIES RunsInOrder EveryTaskRuns
