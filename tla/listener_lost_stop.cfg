SPECIFICATION FairSpec
CONSTANTS
  Owner = owner
  Adders = {adder}
  owner = owner
  adder = adder
  Handler = handlerThread
  Free = free
  Loose = loose
  Garbage = garbage
  Nothing = nothing
  SocketError = socketError
  Strings <- MCStrings
  StrBytes <- MCStrBytes
  Clip <- MCClip
  Empty = ""
  HostName = "host"
  NoAddr = 0
  Addrs = {1, 2, 9}
  Offered <- SomeOffered
  Endings = {}
  Senders = {"near"}
  LocalAddrs <- OneNetwork
  Messages <- RequestMessages
  MaxServices = 0
  MaxArrivals = 0
  MaxStarts = 1
PROPERTIES
  StopAlwaysReturns
