\* Requests in any pieces, one behind the other, some refused, clients that leave
\* at any time; no pair of bytes is cut and nothing follows a packet in its
\* chunk; the limits stand to each other as 1024 and 2048 do.
SPECIFICATION Spec
CONSTANTS
  Sizes = {1, 3, 4, 7}
  Lengths = {1, 2}
  MaxRequest = 6
  MaxChunk = 3
  MaxMessages = 2
  MaxClients = 2
  Modulus = 64
  Conduct <- Careless
CHECK_DEADLOCK FALSE
INVARIANTS Delivered NeverAstray CleanStart
