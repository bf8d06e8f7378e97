SPECIFICATION MCSpec
CONSTANTS
  MaxRounds = 1
  Inputs <- MCInputs
  DayLength <- MCDay
  WeekLength = 2
  MaxDays = 4
  Hours <- MCHours
  Calendars <- MCCalendars
  Moments <- MCMoments
  MaxUnits = 8
  ann = ann
  ben = ben
  glass = glass
  root = root
  north = north
  south = south
  west = west
  h1 = h1
  h2 = h2
  None = None
  Persons <- MCPersons
  BreakGlass <- MCBreakGlass
  Departments <- MCDepartments
  Default = root
  MaxDepth = 3
  Handlers <- MCHandlers
  Scenes <- MCScenes
SYMMETRY EitherHandler
CHECK_DEADLOCK FALSE
INVARIANTS
  BranchesAreEarned
  BusinessTimeIsCounted
  GrantsFollowTheStructure
  LeaversKeepNothing
  DepartmentsFormATree
  
  LocksKeepFactsFresh
PROPERTIES
  BetterSignalsNeverHurt
  GrantsEndForAReason
