SPECIFICATION FairSpec
CONSTANTS
  Owner = owner
  Adders = {adder}
  owner = owner
  adder = adder
  Handler = handlerThread
  Free = free
  Loose = loose
  Garbage = garbage
  Nothing = nothing
  SocketError = socketError
  Strings <- MCStrings
  StrBytes <- MCStrBytes
  Clip <- MCClip
  Empty = ""
  HostName = "host"
  NoAddr = 0
  Addrs = {1, 2, 9}
  Offered <- OneOffered
  Endings = {}
  Senders = {"near"}
  LocalAddrs <- OneNetwork
  Messages <- RequestMessages
  MaxServices = 1
  MaxArrivals = 2
  MaxStarts = 2
INVARIANTS
  TypeOK
  FlagTracksHandler
PROPERTIES
  InboxDrains
  StopReturns
