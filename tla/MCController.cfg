SPECIFICATION FairSpec
CONSTANTS
  p1 = p1  p2 = p2  d1 = d1  d2 = d2
  ip1 = ip1  ip2 = ip2
  short = short  head = head  rest = rest  empty = empty
  ProxyConns <- MCTwo
  DeployerConns <- MCOneDeployer
  Chunks <- MCChunks
  Blank <- empty
  CloseNotify = CloseNotify
  NoConn = NoConn  Fresh = Fresh  Midway = Midway
  Clients <- MCClients
  Policies <- MCShortPolicy
  DemoIPs <- MCDemo
  MaxFds = 3
  MaxRequests = 2
INVARIANTS TypeOK RepliesMatchRequests SingleSession DeniedByDefault WorksOnLiveSession
PROPERTIES SessionServed EndsOnlyStarved DeployerReleased NextProxyTaken
