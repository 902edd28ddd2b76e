CONSTANTS
  Run = {r1, r2}
  Serve = Serve
  Other = Other
  None = None
  Settings <- MCSettings
SPECIFICATION FairSpec
INVARIANTS
  NoStrayGateway
  ServedWhileItRuns
  GuardedBeyondLoopback
PROPERTY TornDown
CHECK_DEADLOCK FALSE
