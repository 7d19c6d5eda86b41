SPECIFICATION LaunchSpec
CONSTANTS
  Programs = {service, terminal}
  Default <- MCDefault
  Edits <- MCEdits
  Absent = Absent
  Failed = Failed
  None = None
INVARIANTS LaunchTypeOK ConfigInForce
