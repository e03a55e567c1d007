SPECIFICATION Spec
CONSTANTS
  Loose = loose
  Garbage = garbage
  Strings <- MCStrings
  StrBytes <- MCStrBytes
  Clip <- MCClip
  Empty = ""
  NoAddr = 0
  Addrs = {1}
  MaxQueries = 256
  MaxRecords = 257
  MaxOther = 2
  MaxMixed = 27
  NoNumber = noNumber
  NotFound = notFound
  NoText = ""
  Texts <- MCTexts
  Lower <- MCLower
  Cut <- MCSame
  Whole <- MCWhole
  Services <- MCServices
  Filters <- MCFilters
  Numbers <- MCNumbers
  Octets <- MCOctets
  Parts <- MCParts
  HostAddresses <- MCHostAddresses
  Requesters <- MCRequesters
  FileLines <- MCFileLines
  MaxParts = 5
  MaxAddresses = 3
  MaxLines = 5
INVARIANTS
  RepliesReadBack
  LongRepliesRefused
  BroadcastsReadBack
  LongBroadcastsRefused
  NumbersArrive
  AddressesArrive
  PackedIntsReadBack
  PackedIntsBounded
  TextsComeBack
  AnswersOnNetwork
  FilesLoad
  FilesCollect
  BrokenFilesRefused
  
CHECK_DEADLOCK FALSE
