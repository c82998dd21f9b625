\* Two processes that open the device at the same time.
CONSTANTS
  Proc = {p1, p2}
  Drivers = {"ioctl"}
  BUF_LEN = 4
  Text <- NoTexts
  ReadLen = {}
  GetLen = 0
  MaxBeyond = 0
  MaxOpens = 1
  Decimal <- Digits
SPECIFICATION Spec
INVARIANTS OneUser
