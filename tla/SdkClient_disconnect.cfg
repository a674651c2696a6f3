\* disconnect() while a reconnection is pending.
CONSTANTS
  Sockets = {s1, s2, s3}
  s1 = s1
  s2 = s2
  s3 = s3
  Limits = {0, 1}
  MaxCalls = 2
  RetryCap = 2
SPECIFICATION ClientSpec
PROPERTIES DisconnectEndsReconnect
