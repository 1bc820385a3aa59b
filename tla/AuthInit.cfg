SPECIFICATION AuthFairSpec
CONSTANTS
  Guid = {g1}
  Ref = {r1, r2}
  Coalition = {c1}
  MaxCoalitions = 1
  Freq = {f1}
  Call = {w1, w2}
  RoleId = {2}
  NoRef = NoRef
  NoRadio = NoRadio
  Free = Free
  NoArg = NoArg
  NoLocal = NoLocal
  Secret = {s1}
  LongPassword = {}
  NoEntry = NoEntry
  NoGrant = NoGrant
PROPERTIES
  InitAnswered
