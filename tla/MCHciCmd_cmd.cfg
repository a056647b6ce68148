CONSTANTS
  Callers = {c1}
  WQ = wq
  Bufs = {b1, b2}
  Opcodes = {o1}
  Slots = 1
  Strays = {o2}
  WqSends = TRUE
  Envs = {{"fail"}, {"stray", "async"}}
  MaxEvents = 1
  NULL = NULL
SPECIFICATION Spec
INVARIANTS RefsCover AnswersMatch QueueMoves
PROPERTY SendReturns
CHECK_DEADLOCK FALSE
