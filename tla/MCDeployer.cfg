SPECIFICATION FairSpec
CONSTANTS
  a1 = a1  a2 = a2
  Nobody = Nobody
  Admins <- MCTwo
  PolicyText <- MCPolicyText
  MAX_BUF_LEN = 2
  Junk = 99
  AfterExit = {"running", "exited"}
  MaxRecord = 2
  MaxFds = 2
INVARIANTS TypeOK SavedFromOneAdmin NothingSkipped DeployedInOrder
PROPERTIES ListenerEndsOnlyStarved SentIsLetGo ListDrains
