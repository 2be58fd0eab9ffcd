SPECIFICATION ShellSpec
CONSTANTS
  Lazy = {"friends"}
  MaxSessions = 2
  Pages = 2
  Friends = {1, 2}
  MaxCalls = 2
  MaxLasting = 1
  MaxChanges = 1
INVARIANTS OneTransport SocketHasTable
PROPERTIES ApiIsSilent FriendsCatchUp NoReloadLoop
