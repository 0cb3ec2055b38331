SPECIFICATION Spec
CONSTANTS
  t1 = t1
  t2 = t2
  a1 = a1
  a2 = a2
  s1 = s1
  Tasks <- TwoTasks
  SubprocessTasks <- SecondTask
  Cancellable <- TwoTasks
  Awaiters <- OneAwaiter
  Streams <- NoStream
  QueueCap = 3
INVARIANT TypeOK
INVARIANT WaiterHasAnswer
INVARIANT WaitersSubscribed
INVARIANT AnswerIsTrue
INVARIANT OneOutcome
INVARIANT DriverReports
PROPERTY FinishedIsFinal
PROPERTY ImplementsLifecycle
