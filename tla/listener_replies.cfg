SPECIFICATION Spec
CONSTANTS
  Owner = owner
  Adders = {adder}
  owner = owner
  adder = adder
  Handler = handlerThread
  Free = free
  Loose = loose
  Garbage = garbage
  Nothing = nothing
  SocketError = socketError
  Strings <- MCStrings
  StrBytes <- MCStrBytes
  Clip <- MCClip
  Empty = ""
  HostName = "host"
  NoAddr = 0
  Addrs = {1, 2, 9}
  Offered <- SomeOffered
  Endings = {"ended"}
  Senders = {"near", "other"}
  LocalAddrs <- TwoNetworks
  Messages <- RepliesMessages
  MaxServices = 2
  MaxArrivals = 2
  MaxStarts = 1
INVARIANTS
  RegistryExclusive
  RecordsFilledIn
  AtMostOneReplyPerQuery
  RepliesAreRead
PROPERTIES
  KeepsPromise
