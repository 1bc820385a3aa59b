SPECIFICATION SrsFairSpec
CONSTANTS
  Guid = {g1, g2}
  Ref = {r1, r2, r3}
  Coalition = {c1, c2}
  MaxCoalitions = 2
  Freq = {f1}
  Call = {w1}
  RoleId = {258}
  NoRef = NoRef
  NoRadio = NoRadio
  Free = Free
  NoArg = NoArg
  NoLocal = NoLocal
  RadioInput <- MCRadioInput
INVARIANTS
  SrsTypeOK
  CoalitionWasConfigured
PROPERTIES
  ChangesByOwnCall
  CallsAnswered
