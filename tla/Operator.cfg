CONSTANTS
  Worker = {w1, w2}
  Once = {w2}
  Bounty = {b1}
  MaxEvent = 2
  MaxVersion = 2
  MaxBreak = 2
  GateBounty = {b1, b2}
  Deliverable = {d1}
  Criterion = {x1}
  MaxDocument = 3
  BuyerCall = {c1, c2}
  Terms = {t1, t2}
  rk1 = rk1
  rk2 = rk2
  n1 = n1
  n2 = n2
  Key = {k1, k2, k3}
  ReplayKey = {rk1, rk2}
  Nonce = {n1, n2}
  NonceOf <- SpelledAlone
  Answer = {1}
  Nothing = Nothing
  urls <- TwoEndpoints
  MaxHeight = 4
  MaxReorg = 1
SPECIFICATION OperatorSpec
INVARIANTS TypeOK CursorCovers SubmissionsApproved PaidAsApproved SettledIsFinal
PROPERTIES EventsSettle
CHECK_DEADLOCK FALSE
