SPECIFICATION TelemetrySpec
CONSTANTS
  MAX_EVENTS = 3
  MAX_RETRY_EVENTS = 2
  MaxLogged = 6
CHECK_DEADLOCK FALSE
PROPERTIES
  NewestDropped
