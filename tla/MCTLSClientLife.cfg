SPECIFICATION Spec
CONSTANTS
  Owners = {"Proxy", "Deployer", "Validator"}
  AfterExit = {"running", "exited"}
  MaxPolicies = 3
INVARIANTS NoRawUse NothingOverwritten SessionWhole NothingKept
PROPERTY ImplementsLink
