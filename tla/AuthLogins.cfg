SPECIFICATION AuthSpec
CONSTANTS
  Guid = {g1}
  Ref = {r1, r2}
  Coalition = {c1}
  MaxCoalitions = 1
  Freq = {f1}
  Call = {w1, w2}
  RoleId = {1, 258}
  NoRef = NoRef
  NoRadio = NoRadio
  Free = Free
  NoArg = NoArg
  NoLocal = NoLocal
  Secret = {s1, s2}
  LongPassword = {c1}
  NoEntry = NoEntry
  NoGrant = NoGrant
SYMMETRY Symmetry
INVARIANTS
  AuthTypeOK
  SessionWasInitialized
  RoleWasGranted
  SecretBacksRole
