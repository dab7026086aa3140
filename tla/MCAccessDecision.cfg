SPECIFICATION MCSpec
CONSTANTS
  hours = hours
  always = always
  gone = gone
  staff = staff
  guards = guards
  ghosts = ghosts
  DayMinutes <- ThreeMinutes
  Schedules <- TwoSchedules
  AlwaysOn = {always}
  Groups <- ThreeGroups
  ScheduleOf <- GroupSchedules
  WindowSets <- EveryWindow
  Badges <- TriedBadges
INVARIANTS
  WindowsAreArcs
  HolidaysClose
  OfflineReasonIsTheRealOne
  DuressLooksTheSame
PROPERTIES
  GrantsAreAdditive
