SPECIFICATION ServiceFairSpec
CONSTANTS
  Owner = owner
  Adders = {}
  owner = owner
  Handler = handlerThread
  Free = free
  Loose = loose
  Garbage = garbage
  Nothing = nothing
  SocketError = socketError
  Strings <- MCStrings
  StrBytes <- MCStrBytes
  Clip <- MCClip
  Empty = ""
  HostName = "host"
  NoAddr = 0
  Addrs = {1}
  Offered <- FileEntries
  Endings <- MainEndings
  Senders = {"near"}
  LocalAddrs <- OneNetwork
  Messages <- OneMessage
  MaxServices = 4
  MaxArrivals = 2
  MaxStarts = 1
  Folders <- AllFolders
  MaxSignals = 2
INVARIANTS
  AnswersAreComplete
  NoListenerInPart
  LibraryUsedRightly
  CleanExit
  StatusIsTrue
PROPERTIES
  ListenerStops
  ControlStops
