SPECIFICATION Spec
CONSTANTS
  global = global
  monitor = monitor
  Loggers = {global, monitor}
  Sinks <- MCSinks
  MayFail = {monitor}
  MaxLines = 2
  MaxMessages = 3
INVARIANTS TypeOK NoHole
PROPERTY WindowSpec
