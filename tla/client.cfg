SPECIFICATION FairSpec
CONSTANTS
  Loose = loose
  Garbage = garbage
  SocketError = socketError
  Strings <- MCStrings
  StrBytes <- MCStrBytes
  Clip <- MCClip
  Empty = ""
  NoAddr = 0
  Addrs = {1, 2, 9}
  QueryCounts = {0, 1, 255, 256}
  Interfaces = 4
  WithIPv4 = {1, 2, 4}
  Responders = {"a", "b", "long"}
  Reach <- Routes
  Replies <- Answers
  Wait = 1
  MaxDuplicates = 1
  MaxErrors = 1
INVARIANTS
  TypeOK
  CompleteWhenQuiet
  UniquesComplete
PROPERTIES
  KeepsPromise
  CallReturns
