SPECIFICATION Spec
CONSTANTS
  maker = maker
  gem = gem
  stranger = stranger
  a = a
  b = b
  c = c
  d = d
  t1 = t1
  t2 = t2
  r1 = r1
  r2 = r2
  r3 = r3
  r4 = r4
  r5 = r5
  r6 = r6
  Workers = {w1, w2}
  Accounts = {maker, gem}
  Blocks = {a, b, c, d}
  Number <- MCNumber
  Txs = {t1, t2}
  RawLogs = {r1, r2, r3}
  Content <- ReorgContent
  Window = 1
  MaxHeaders = 3
  MaxLogs = 4
  MaxFaults = 1
INVARIANTS
  TypeOK
  LogsFaithful
  RowsFaithful
  OneRowPerLog
  TransformedIffStored
  OneIdPerAccount
PROPERTIES
  AddressesStable
  RowsStable
  ImplementsMirror
  FinalRowsStay
SYMMETRY Alike
\* The bounds are used up in the end.
CHECK_DEADLOCK FALSE
