SPECIFICATION FairSpec
CONSTANTS
  u1 = u1
  u2 = u2
  e1 = e1
  zA = zA
  a1 = a1
  a2 = a2
  None = None
  Keep = Keep
  AllZones = {zA}
  Ids = {u1, u2}
  Emails = {e1}
  Admins = {a1, a2}
  Given = {"citizen", "field_officer", "other"}
  MaxRequests = 3
  MaxFaults = 2
INVARIANTS RuleHolds
PROPERTIES OnlyPatchReactivates GetsRow
CHECK_DEADLOCK FALSE
