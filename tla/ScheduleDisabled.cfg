SPECIFICATION FairScheduleSpec
CONSTANTS
  Times = {d1}
  Admins = {a1}
  Never = Never
  MaxHitches = 0
PROPERTY DisabledIsNotScheduled
