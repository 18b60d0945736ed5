CONSTANTS
  Syncers = {"worker"}
  MailOf <- MCMailOf
  Aged = {2}
  BatchContexts = 2
  ScanMessages = 2
  ScanPages = 2
  MailFaults = {}
  MaxLeases = 5
SPECIFICATION MailSpec
INVARIANTS
  WatchedIsScannable
CHECK_DEADLOCK FALSE
