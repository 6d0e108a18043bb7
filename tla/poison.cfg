SPECIFICATION Spec
CONSTANTS
  maker = maker
  gem = gem
  stranger = stranger
  a = a
  b = b
  c = c
  d = d
  t1 = t1
  t2 = t2
  r1 = r1
  r2 = r2
  r3 = r3
  r4 = r4
  r5 = r5
  r6 = r6
  Workers = {w1, w2}
  Accounts = {maker, gem, stranger}
  Blocks = {a, b, c}
  Number <- MCNumber
  Txs = {t1, t2}
  RawLogs = {r1, r2, r3, r4, r5, r6}
  Content <- PoisonContent
  Window = 15
  MaxHeaders = 1
  MaxLogs = 3
  MaxFaults = 1
INVARIANTS
  AddressesHaveSource
PROPERTIES
  AllOrNothing
\* The bounds are used up in the end.
CHECK_DEADLOCK FALSE
