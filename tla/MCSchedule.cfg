SPECIFICATION Spec

CONSTANTS
  Thread = {t1, t2}
  HoursPerDay = 4
  CatchUp = 1
  LastHour = 11
  MaxRequests = 2

SYMMETRY ThreadSymmetry

CHECK_DEADLOCK FALSE

INVARIANTS
  ScheduleTypeOK
  SettingsInForce
  DayCovered
