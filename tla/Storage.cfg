SPECIFICATION StorageSpec
CONSTANTS
  Client = {b1, b2}
  General = {g1, g2}
  Default = g1
  Zero = Zero
  Key = {k1, k2, k3}
  Missing = Missing
  Torn = Torn
  Call = {w1, w2}
  NoKey = NoKey
SYMMETRY Symmetry
INVARIANTS
  StorageTypeOK
  BansAsDecided
  SettingsAsSaved
  CertificateMatchesKey
  TokensStayValid
CHECK_DEADLOCK FALSE
