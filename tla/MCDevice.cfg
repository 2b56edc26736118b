CONSTANTS
  Settings <- MCSettings
  Saved <- MCSaved
  ErasedCfg <- MCErased
  NoName = ""
  MQTT_PORT = 1883
  FailedAttemptsMax = 2
  MaxRestarts = 1
SPECIFICATION DeviceFairSpec
INVARIANT SettingsInUse
PROPERTY FallsBack
PROPERTY HearsOfStation
