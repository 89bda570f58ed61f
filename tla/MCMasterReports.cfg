SPECIFICATION FairSpec
CONSTANTS
  s1 = s1
  m1 = m1
  steam = steam
  Servers = {s1, m1}
  Modules1 = {m1}
  SteamClients = {steam}
  Configs <- MCConfigs
  Port <- MCPort
  MaxBacklog = 3
  MaxFills = 2
  SmallestBuffer = 5
  BufferSizes = {0, 4, 5, 6, 7, 8, 10, 11, 12}
INVARIANTS
  ReportsInv
  BuildersKeepToBuffer
PROPERTIES
  ThreadOutlivesServer
  SilencedForGood
  WaitingSendsLeave
CHECK_DEADLOCK FALSE
