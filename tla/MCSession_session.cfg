CONSTANTS
  u1 = u1
  u2 = u2
  a = a
  b = b
  p = p
  q = q
  User <- MCUser
  Email <- MCEmail
  Senha <- MCSenha
  Known <- MCKnown
  Tab = {t1, t2}
  Call = {c1, c2}
  None = None
  Life = 1
  Grace = 1
  MaxClock = 2
  MaxCalls = 2
SPECIFICATION Spec
INVARIANTS AccountsAreOwn QuietSessionIsCoherent
PROPERTIES LiveSessionIsKept CallsSettle
CHECK_DEADLOCK FALSE
