CONSTANTS
  Clients = {c1, c2}
  MaxPending = 2
  Values = 3
  Md5Clients = {d1, d2}
  FileBlocks = 2
  SendBlocks = 2
  Creators = {k1, k2}
  Users = {u1}
  Writers = {w1, w2}
  Readers = {r1, r2}
  Capacity = 2
  MaxQueues = 2
  MaxSends = 3
  Rounds = 3
  Soldiers = {s1, s2, s3}
  saveNum = 2
  Crossings = 1
  Looks = 1
  Cells = 3
  Place = 1
  MaxWrites = 4
  Header = 2
  msg_max_size = 6
  MaxBytes = 6
  Sleepers = {"sigsleeper", "sigsleeper_fixed", "Z__Signal_Sender"}
SPECIFICATION FairSpec
INVARIANTS TypeOK DigestIsOwn LockedReadsWhole NothingLost NothingLeftBehind StartedTogetherJoined NamesFit NoFalseAlarm HandedOnce MeetTogether ReadsLastWritten PrintedAsWritten
PROPERTIES CallersReleased ConnectionsFreed EventsComeBack UserGetsIn ChangersGetIn TestReturns DataMovesOn
CHECK_DEADLOCK FALSE
