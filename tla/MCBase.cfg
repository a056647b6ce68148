CONSTANTS
  t1 = t1
  t2 = t2
  p1 = p1
  p2 = p2
  s1 = s1
  s2 = s2
  q1 = q1
  NULL = NULL
  Nodes = {n1, n2, n3}
  Pools = {p1, p2}
  NumBlocks = 2
  PoolThreads = {u1, u2}
  PoolTimeouts = {"nowait", "timed", "forever"}
  Pollers = {p1, p2}
  Raisers = {r1}
  Signals = {s1, s2}
  Queues = {q1}
  EventsOf <- SharedEvents
  PollTimeouts = {"nowait", "timed"}
  BufCount = 3
  BufThreads = {t1, t2}
  BufTimeouts = {"nowait", "forever"}
  MaxRef = 2
  Headless = FALSE
  Shares = FALSE
SPECIFICATION BaseSpec
INVARIANTS ListShape PoolConserved PollExact BufsExact
SYMMETRY Symmetry
CHECK_DEADLOCK FALSE
