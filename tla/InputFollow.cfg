\* A request behind an RTCP packet in one chunk.
SPECIFICATION Spec
CONSTANTS
  Sizes = {1, 2}
  Lengths = {1}
  MaxRequest = 12
  MaxChunk = 6
  MaxMessages = 2
  MaxClients = 1
  Modulus = 64
  Conduct <- Following
CHECK_DEADLOCK FALSE
PROPERTIES RtcpUsed
