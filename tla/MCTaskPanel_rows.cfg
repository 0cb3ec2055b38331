SPECIFICATION PanelFairSpec
CONSTANTS
  t1 = t1
  a1 = a1
  s1 = s1
  s2 = s2
  Tasks <- OneTask
  SubprocessTasks <- NoTask
  Cancellable <- OneTask
  Awaiters <- OneAwaiter
  Streams <- TwoStreams
  QueueCap = 2
INVARIANT RowIsTrue
PROPERTY RowsGo
PROPERTY AwaiterWakes
