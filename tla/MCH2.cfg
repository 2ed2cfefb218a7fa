SPECIFICATION Spec
CONSTANTS
  Window = 4
  Size <- Answers
  SockBuf = 2
  MaxRecv = 1
INVARIANTS CreditConserved 
 
