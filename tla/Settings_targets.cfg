SPECIFICATION SettingsSpec
CONSTANTS
  ta = ta
  tb = tb
  TargetNames = {ta, tb}
  Layouts <- TwoTargets
  Clients = {h1}
  MaxTargets = 2
  MaxSecrets = 2
  MaxSettingsWrites = 3
PROPERTIES
  OtherTargetsKeepTheirSecrets
CHECK_DEADLOCK FALSE
