SPECIFICATION Spec
CONSTANTS Clients = {"a", "b"}
          Wanted <- MCWanted
          MaxConn = 3
          MaxPing = 1
          MaxBreak = 1
          MaxOwn = 1
          History = 1
          MaxProtocol = 1
          LateProtocol = FALSE
INVARIANTS RightClient HostInformed
CHECK_DEADLOCK FALSE
