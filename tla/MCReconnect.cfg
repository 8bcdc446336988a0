SPECIFICATION FairSpec
CONSTANTS
  p1 = p1  p2 = p2  d1 = d1  d2 = d2
  ip1 = ip1  ip2 = ip2
  short = short  head = head  rest = rest  empty = empty
  ProxyConns <- MCTwo
  DeployerConns <- MCNone
  Chunks <- MCChunks
  Blank <- empty
  CloseNotify = CloseNotify
  NoConn = NoConn  Fresh = Fresh  Midway = Midway
  Clients <- MCClients
  Policies <- MCPolicies
  DemoIPs <- MCDemo
  MaxFds = 3
  MaxRequests = 1
INVARIANTS NoProxyRejected
