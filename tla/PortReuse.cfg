\* The three drivers, each with two processes whose calls of open and release
\* interleave; texts of "ioctl" that are shorter than the buffer, fill it and are
\* longer; on "setsockopt" the program, with two threads that share the port and
\* serve two connections, beside another process.
CONSTANTS
  Proc = {p1, p2}
  Drivers = {"hello", "ioctl", "setsockopt"}
  BUF_LEN = 3
  Text <- Texts
  ReadLen = {0, 1, 2}
  GetLen = 5
  MaxBeyond = 1
  MaxOpens = 3
  Decimal <- Digits
  Client = p1
  Worker = {t1, t2}
  Conn = {c1, c2}
  NoConn = NoConn
SPECIFICATION PSpec
INVARIANTS ReadyForNextCaller GreetingsCount ReadsFollowMessage TextIsMessage PortShared NoDescriptorLost
PROPERTIES ConnectionsServed
