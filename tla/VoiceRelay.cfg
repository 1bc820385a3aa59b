SPECIFICATION VoiceFairSpec
CONSTANTS
  Guid = {g1, g2}
  Ref = {r1, r2}
  Coalition = {c1}
  MaxCoalitions = 1
  Freq = {f1, t1}
  RoleId = {}
  NoRef = NoRef
  NoRadio = NoRadio
  Free = Free
  Call = {w1}
  NoClient = NoClient
  Unread = Unread
  NoFreq = NoFreq
  GlobalFreq = {}
  TestFreq = {t1}
  RadioInput <- MCRadioInput
INVARIANTS
  VoiceTypeOK
  FansOut
PROPERTIES
  SilentClientsForgotten
