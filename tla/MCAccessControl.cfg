SPECIFICATION AccessFairSpec
CONSTANTS
  p1 = p1  p2 = p2  o1 = o1
  ip1 = ip1  ip2 = ip2  empty = empty
  Mine <- MCMine
  ProxyConns <- MCProxies
  DeployerConns <- MCNone
  Chunks <- MCChunks
  Blank <- empty
  CloseNotify = CloseNotify
  NoConn = NoConn  Fresh = Fresh  Midway = Midway
  Clients <- MCClients
  Policies <- MCNone
  DemoIPs <- MCDemo
  MaxFds = 2
  MaxRequests = 2
  AfterExit = {"running", "exited"}
  MaxClients = 2
INVARIANTS NobodyLetIn RetryInVain
PROPERTIES ImplementsProxy EveryClientAnswered

