SPECIFICATION Spec
CONSTANTS
  c1 = c1
  c2 = c2
  h1 = h1
  h2 = h2
  h3 = h3
  p1 = p1
  p2 = p2
  p3 = p3
  NULL = NULL
  Conns = {c1, c2}
  Chans = {h1, h2, h3}
  Owner <- ThreeOwner
  Dynamic = {h1}
  Pdus = {p1, p2, p3}
  Route <- ThreeRoute
  Shape <- SegShape
  CtlrBufs = 2
  Txs = {t1, t2}
  MaxInLL = 1
  MaxCredits = 2
  Preempts = {TRUE, FALSE}
  CanFail = {TRUE, FALSE}
  CanDrop = {c1}
CHECK_DEADLOCK FALSE
INVARIANTS CreditsExact CallbacksInOrder AssertsHold RaisedSeen
