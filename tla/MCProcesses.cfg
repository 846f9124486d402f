SPECIFICATION ProcessesSpec
CONSTANTS
  Parts = {"workers", "daemon", "stream"}
  NumWorkers = 2
  MaxDeaths = 1
  MaxTorn = 1
  NumServers = 2
  Client <- Users
  Commands <- Alone
  Pid <- Servers
  MaxFaults = 1
  SlowStart = FALSE
  Nobody = Nobody
  Conn <- Peers
  Messages <- Lengths
  HeaderSize = 2
  Base = 2
  MaxRead = 7
  MayClose = {2}
  Nothing = Nothing
INVARIANTS
  TypesOK
  NoProtocolError
  Handover
  OptionsWhileAwaited
  NoStatusFileLeft
  StatusIsTrue
  MessagesInOrder
  NothingLeftUnread
PROPERTIES
  BuildsEnd
  
  CommandsEnd
