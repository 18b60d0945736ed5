CONSTANTS
  a1 = a1
  a2 = a2
  e1 = e1
  m1 = m1
  m2 = m2
  c1 = c1
  c2 = c2
  f1 = f1
  f2 = f2
  v1 = v1
  v2 = v2
  None = None
  Accounts = {a1, a2}
  Employers = {e1}
  EmployerOf <- OneEmployer
  Calls = {c1, c2}
  Messages = {m1, m2}
  Followers = {f1, f2}
  Versions = {v1, v2}
  MaxHops = 1
  MaxRestores = 1
  MaxChanges = 2
SPECIFICATION Spec
SYMMETRY Alike
INVARIANTS
  TypeOK
  OneSignup
  ActiveIsReal
  OneLinkOpened
  StopCutsRedirects
CHECK_DEADLOCK FALSE
