CONSTANTS
  p = p  q = q  a = a  b = b  x = x  y = y  t1 = t1
  Proc = {p, q}
  Server = {p}
  Knows <- MCKnows
  NoProc = NoProc
  MaxStops = 1
  Agent = {a, b}
  Name = {x, y}
  Setup <- MCSetup
  Keeping = {a, b}
  Cred = {c1, c2}
  Token = {t1, t2}
  None = None
  MaxFaults = 1
SPECIFICATION Spec
INVARIANTS TypeOK AppliedOnce ServesMigrated TokenOnce SpentWithNode CredentialsGood
PROPERTIES ServesInTheEnd HeardInTheEnd
CHECK_DEADLOCK FALSE
