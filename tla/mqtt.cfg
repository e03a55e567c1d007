SPECIFICATION AppFairSpec
CONSTANTS
  Strings <- MCStrings
  StrBytes <- MCStrBytes
  Clip <- MCClip
  Empty = ""
  Addrs = {1, 2}
  NoAddr = 0
  Loose = loose
  Garbage = garbage
  Null = null
  Nodes = {n1, n2, n3}
  Ports = {11310, 5353}
  NyanPort = 11310
  Filter = "mqtt"
  Datagrams <- MCDatagrams
  MaxGotIP = 2
INVARIANTS
  ListIntact
  NeverReadsFreed
  IdleForAReason
PROPERTIES
  FreesItsReplies
  BrokerIsRetried
CHECK_DEADLOCK FALSE
