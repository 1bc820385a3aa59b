SPECIFICATION ControlSpec
CONSTANTS
  Guid = {g1}
  Ref = {r1, r2, r3}
  Coalition = {c1}
  MaxCoalitions = 1
  Freq = {f1}
  Call = {w1, w2}
  RoleId = {1, 2}
  NoRef = NoRef
  NoRadio = NoRadio
  Free = Free
  NoArg = NoArg
  NoLocal = NoLocal
  Secret = {s1}
  LongPassword = {c1}
  NoEntry = NoEntry
  NoGrant = NoGrant
  RadioInput <- MCRadioInput
SYMMETRY Symmetry
INVARIANTS
  ControlTypeOK
  ClientHasRadio
  RoleWithinGrant
  RoleBackedByPlugin
  CallsAreAuthenticated
PROPERTIES
  ControlImplementsSessions
