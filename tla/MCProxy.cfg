SPECIFICATION Spec
CONSTANTS
  a1 = a1  a2 = a2
  IPs <- MCIPs
  NoRsp = NoRsp
  AfterExit = {"running", "exited"}
  MaxClients = 3
INVARIANTS TypeOK ResponseIsClients NothingSkipped
