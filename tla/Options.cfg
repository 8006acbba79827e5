\* Every kind of host, up to two options at once, one of them inherited, a caller that changes them.
SPECIFICATION ScanOptionsSpec
CONSTANTS
  Options = {"policy", "actionPolicy", "scanLimits", "ruleset", "placeholderFormatter"}
  Cores = {1, 2, 3, 4, 5, 6, 7, 8, 9, 10, 11}
  MaxGiven = 2
  MaxInherited = 1
  MaxChanges = 2
INVARIANTS
  SentIsTheSnapshot
  HonouredOrRefused
\* One host is constructed.
CHECK_DEADLOCK FALSE
