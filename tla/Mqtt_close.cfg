SPECIFICATION LiveSpec
CONSTANTS
  Calls = {"mqtt_start", "mqtt_close", "mqtt_fetchStatus"}
  Topics = {"a"}
  Matching <- PrefixMatching
  Slots = 1
  MaxCalls = 2
  MaxMsgs = 0
  MaxDrops = 1
PROPERTIES
  ClosedIsRecorded
CHECK_DEADLOCK FALSE
