SPECIFICATION Spec
CONSTANTS
  Owner = owner
  Adders = {adder}
  owner = owner
  adder = adder
  Handler = handlerThread
  Free = free
  Loose = loose
  Garbage = garbage
  Nothing = nothing
  SocketError = socketError
  Strings <- MCStrings
  StrBytes <- MCStrBytes
  Clip <- MCClip
  Empty = ""
  HostName = "host"
  NoAddr = 0
  Addrs = {1, 2, 9}
  Offered <- SomeOffered
  Endings = {}
  Senders = {"wide"}
  LocalAddrs <- Beyond
  Messages <- RepliesMessages
  MaxServices = 1
  MaxArrivals = 1
  MaxStarts = 1
INVARIANTS
  SectionsCounted
