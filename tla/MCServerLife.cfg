SPECIFICATION Spec
CONSTANTS
  Servers <- MCServers
  SGX = {FALSE, TRUE}
  MaxFds = 3
INVARIANTS SetUpInOrder ServesWhole HandshakeFresh
PROPERTIES ImplementsPort
