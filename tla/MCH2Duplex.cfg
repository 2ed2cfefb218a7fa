SPECIFICATION Spec
CONSTANTS
  Window = 4
  Size <- Duplex
  SockBuf = 2
  MaxRecv = 1
PROPERTIES WritesEnd
