SPECIFICATION LiveSpec
CONSTANTS
  Calls = {"mqtt_start", "mqtt_open", "mqtt_subscribeTopic", "mqtt_cancelTopic", "mqtt_close", "mqtt_fetchStatus"}
  Topics = {"a", "ab"}
  Matching <- PrefixMatching
  Slots = 2
  MaxCalls = 2
  MaxMsgs = 2
  MaxDrops = 1
INVARIANTS
  TypeOK
  TopicOnce
  EndsItself
  SubscribedIsKnown
  StateNotAhead
PROPERTIES
  CallReturns
CHECK_DEADLOCK FALSE
