SPECIFICATION Spec
CONSTANTS
  main = main
  worker = worker
  flush = flush
  miss = miss
  err = err
  overrun = overrun
  info = info
  NoMessage = NoMessage
  Threads <- MCThreads
  Messages <- MCMessages
  Kind <- MCKind
  MaxLines = 4
INVARIANTS NothingHidden ScriptErrorsSurface
