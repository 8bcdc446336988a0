SPECIFICATION FairSpec
CONSTANTS
  a1 = a1  a2 = a2
  Nobody = Nobody
  Admins <- MCTwo
  PolicyText <- MCPolicyText
  MAX_BUF_LEN = 2
  Junk = 99
  AfterExit = {"exited"}
  MaxRecord = 2
  MaxFds = 3
PROPERTIES EndedIsLetGo
